---- MODULE Spec2Model ----
(***************************************************************************)
(* Section-aware similarity scoring engine of Agent_CV_JD.                 *)
(*                                                                         *)
(* Conventions of the model                                                *)
(*   - a Python str is a sequence of Unicode code points (integers);       *)
(*   - a numpy vector is a record [shape, data]: shape is its length and   *)
(*     data holds its first two components, every further component        *)
(*     being 0 in every vector the model builds;                           *)
(*   - a Python dict is a function; a missing key is outside its DOMAIN;   *)
(*   - a call returns a record [st, raised, value]: the module state after *)
(*     the call, whether an exception left the call, and the return value. *)
(***************************************************************************)
EXTENDS Integers, Sequences, FiniteSets, TLC

VARIABLES
    MODELS,       \* similarity._MODELS: model_type -> loaded encoder
    cache,        \* the lru_cache of get_embedding, least recently used first
    constructed,  \* model_type -> number of SentenceTransformer(...) completed
    encoded,      \* <<text, model_type>> -> number of model.encode calls
    failures,     \* number of backend failures injected so far
    failed,       \* cache key of the call the last call's backend failure hit
    threads,      \* thread -> the frame of its get_embedding call
    call,         \* the arguments drawn for the call under study
    ret           \* what the last call did

vars == <<MODELS, cache, constructed, encoded, failures, failed, threads, call, ret>>

(***************************************************************************)
(* Bounds of the exploration.                                              *)
(***************************************************************************)
MaxFailures == 1      \* backend failures injected in one behaviour

(***************************************************************************)
(* Python str helpers.                                                     *)
(***************************************************************************)
\* str.isspace() for one code point (the code points below U+3000)
isspace(c) ==
    \/ c \in 9..13
    \/ c \in 28..32
    \/ c \in {133, 160, 5760, 8232, 8233, 8239, 8287}
    \/ c \in 8192..8202

RECURSIVE lstrip(_)
lstrip(s) ==
    IF s = <<>> THEN <<>>
    ELSE IF isspace(Head(s)) THEN lstrip(Tail(s)) ELSE s

RECURSIVE rstrip(_)
rstrip(s) ==
    IF s = <<>> THEN <<>>
    ELSE IF isspace(s[Len(s)]) THEN rstrip(SubSeq(s, 1, Len(s) - 1)) ELSE s

\* str.strip()
strip(s) == rstrip(lstrip(s))

RECURSIVE SumSeq(_)
SumSeq(s) == IF s = <<>> THEN 0 ELSE Head(s) + SumSeq(Tail(s))

(***************************************************************************)
(* similarity.CONFIG                                                       *)
(***************************************************************************)
ModelTypes == {"short", "long"}

models == [short |-> "all-MiniLM-L6-v2", long |-> "all-mpnet-base-v2"]

\* the mapped pairs in the iteration order of the dict
sections_map ==
    << <<"perfil", "descripcion">>,
       <<"experiencia", "responsabilidades">>,
       <<"formacion", "formacion">>,
       <<"habilidades", "habilidades">> >>

section_types ==
    [perfil |-> TRUE, descripcion |-> TRUE, experiencia |-> FALSE,
     responsabilidades |-> FALSE, formacion |-> FALSE, habilidades |-> TRUE]

\* weights in hundredths: 0.15, 0.35, 0.20, 0.30
weights ==
    [perfil_descripcion |-> 15, experiencia_responsabilidades |-> 35,
     formacion |-> 20, habilidades |-> 30]

\* the default of CONFIG["weights"].get(k, 0.25), in hundredths
default_weight == 25

\* maxsize of the lru_cache on get_embedding
maxsize == 100

\* output dimension of the two encoders
ModelDim(model_name) == IF model_name = "all-MiniLM-L6-v2" THEN 384 ELSE 768

(***************************************************************************)
(* Vectors.                                                                *)
(***************************************************************************)
\* np.zeros(dim)
zeros(dim) == [shape |-> dim, data |-> <<0, 0>>]

NoVector == [shape |-> 0, data |-> <<>>]

NotLoaded == [name |-> "", serial |-> 0]

(***************************************************************************)
(* The embedding backend.  What encode returns is not decided by this      *)
(* repository: a backend is one of a few tables, and the vector of a text  *)
(* is picked in the table by the text and the model.                       *)
(***************************************************************************)
Backends ==
    { << <<1, 0>>, <<1, 1>>, <<0, 1>>, <<-1, 1>>, <<2, 1>> >>,
      << <<1, 2>>, <<-1, -1>>, <<2, -1>>, <<1, 1>>, <<-2, 1>> >> }

EncodeData(be, model_name, text) ==
    be[((SumSeq(text) + Len(text) + ModelDim(model_name)) % Len(be)) + 1]

Count(f, k) == IF k \in DOMAIN f THEN f[k] ELSE 0

Bump(f, k) == (k :> (Count(f, k) + 1)) @@ f

\* SentenceTransformer(model_name): the failAt-th backend operation of the
\* call raises
SentenceTransformer(st, model_type, failAt) ==
    LET n == st.ops + 1 IN
    IF n = failAt
    THEN [st |-> [st EXCEPT !.ops = n], raised |-> TRUE, value |-> NotLoaded]
    ELSE LET serial == st.constructed[model_type] + 1 IN
         [st |-> [st EXCEPT !.ops = n, !.constructed[model_type] = serial],
          raised |-> FALSE,
          value |-> [name |-> models[model_type], serial |-> serial]]

\* model.encode(text, convert_to_numpy=True)
encode(st, model, text, be, failAt) ==
    LET n == st.ops + 1
        s1 == [st EXCEPT !.ops = n,
                         !.encoded = Bump(st.encoded, <<text, model.name>>)]
    IN  IF n = failAt
        THEN [st |-> s1, raised |-> TRUE, value |-> NoVector]
        ELSE [st |-> s1, raised |-> FALSE,
              value |-> [shape |-> ModelDim(model.name),
                         data |-> EncodeData(be, model.name, text)]]

(***************************************************************************)
(* similarity.get_model                                                    *)
(***************************************************************************)
\* a get_model that loads the encoder at every call
get_model_reload(st, model_type, failAt) ==
    LET c == SentenceTransformer(st, model_type, failAt) IN
    IF c.raised THEN c
    ELSE [st |-> [c.st EXCEPT !.MODELS[model_type] = c.value],
          raised |-> FALSE, value |-> c.value]

get_model(st, model_type, failAt) ==
    IF st.MODELS[model_type] = NotLoaded
    THEN LET c == SentenceTransformer(st, model_type, failAt) IN
         IF c.raised THEN c
         ELSE [st |-> [c.st EXCEPT !.MODELS[model_type] = c.value],
               raised |-> FALSE, value |-> c.value]
    ELSE [st |-> st, raised |-> FALSE, value |-> st.MODELS[model_type]]

(***************************************************************************)
(* similarity.get_embedding: the decorated function body, then the         *)
(* lru_cache wrapper around it.                                            *)
(***************************************************************************)
\* the two dimensions exchanged
embedding_dim_swapped(is_short) == IF is_short THEN 768 ELSE 384

embedding_dim(is_short) == IF is_short THEN 384 ELSE 768

\* a failure of the backend answered by a zero vector
get_embedding_body_fallback(st, text, is_short, be, failAt) ==
    IF text = <<>> \/ Len(strip(text)) = 0
    THEN [st |-> st, raised |-> FALSE, value |-> zeros(embedding_dim(is_short))]
    ELSE LET model_type == IF is_short THEN "short" ELSE "long"
             m == get_model(st, model_type, failAt)
             e == encode(m.st, m.value, text, be, failAt)
         IN  IF m.raised \/ e.raised
             THEN [st |-> IF m.raised THEN m.st ELSE e.st, raised |-> FALSE,
                   value |-> zeros(embedding_dim(is_short))]
             ELSE e

\* only the empty text taken for a blank one
get_embedding_body_nostrip(st, text, is_short, be, failAt) ==
    IF text = <<>>
    THEN [st |-> st, raised |-> FALSE, value |-> zeros(embedding_dim(is_short))]
    ELSE LET model_type == IF is_short THEN "short" ELSE "long"
             m == get_model(st, model_type, failAt)
         IN  IF m.raised
             THEN [st |-> m.st, raised |-> TRUE, value |-> NoVector]
             ELSE encode(m.st, m.value, text, be, failAt)

get_embedding_body(st, text, is_short, be, failAt) ==
    IF text = <<>> \/ Len(strip(text)) = 0
    THEN [st |-> st, raised |-> FALSE, value |-> zeros(embedding_dim(is_short))]
    ELSE LET model_type == IF is_short THEN "short" ELSE "long"
             m == get_model(st, model_type, failAt)
         IN  IF m.raised
             THEN [st |-> m.st, raised |-> TRUE, value |-> NoVector]
             ELSE encode(m.st, m.value, text, be, failAt)

\* position of key in the cache, 0 when absent
CacheIndex(c, key) ==
    IF \E i \in 1..Len(c) : c[i].key = key
    THEN CHOOSE i \in 1..Len(c) : c[i].key = key
    ELSE 0

RemoveAt(s, i) == SubSeq(s, 1, i - 1) \o SubSeq(s, i + 1, Len(s))

\* a hit that leaves the entry where it is: first in, first out
CacheHit_fifo(c, i) == c

\* a hit moves the entry to the most recently used end
CacheHit(c, i) == Append(RemoveAt(c, i), c[i])

\* a cache that is full one entry early
CacheStore_early(c, key, value) ==
    LET entry == [key |-> key, value |-> value] IN
    IF Len(c) >= maxsize - 1 THEN Append(Tail(c), entry) ELSE Append(c, entry)

\* a miss stores the result, evicting the least recently used entry of a
\* full cache
CacheStore(c, key, value) ==
    LET entry == [key |-> key, value |-> value] IN
    IF Len(c) >= maxsize THEN Append(Tail(c), entry) ELSE Append(c, entry)

\* the call of the decorated function, noting the key when the backend
\* failed under it
CallBody(st, text, is_short, be, failAt) ==
    LET r == get_embedding_body(st, text, is_short, be, failAt) IN
    IF st.ops < failAt /\ r.st.ops >= failAt
    THEN [r EXCEPT !.st.failed = <<text, is_short>>]
    ELSE r

get_embedding(st, text, is_short, be, failAt) ==
    LET key == <<text, is_short>>
        i == CacheIndex(st.cache, key)
    IN  IF i # 0
        THEN [st |-> [st EXCEPT !.cache = CacheHit(st.cache, i)],
              raised |-> FALSE, value |-> st.cache[i].value]
        ELSE LET r == CallBody(st, text, is_short, be, failAt) IN
             IF r.raised THEN r
             ELSE [st |-> [r.st EXCEPT !.cache = CacheStore(r.st.cache, key, r.value)],
                   raised |-> FALSE, value |-> r.value]

(***************************************************************************)
(* Floating point.  numpy and Python compute line 84 of similarity.py in   *)
(* binary floating point, rounding every operation to the nearest          *)
(* representable number, ties to even.  The model keeps that arithmetic    *)
(* with a mantissa of Precision bits instead of 53 (the integers of the    *)
(* checker have 32 bits).  A float is                                      *)
(* [s, m, e], of value s * m * 2^e with 2^(Precision-1) <= m < 2^Precision,*)
(* and 0.0 is [s |-> 0, m |-> 0, e |-> 0].                                 *)
(***************************************************************************)
Precision == 13

RECURSIVE BitLength(_)
BitLength(n) == IF n = 0 THEN 0 ELSE 1 + BitLength(n \div 2)

FZero == [s |-> 0, m |-> 0, e |-> 0]

FOne == [s |-> 1, m |-> 2 ^ (Precision - 1), e |-> 0 - (Precision - 1)]

\* n * 2^e rounded to Precision bits, ties to even; sticky says that the
\* exact value is a little above n * 2^e
RoundNearestEven(sign, n, e, sticky) ==
    LET bits == BitLength(n) IN
    IF n = 0 THEN FZero
    ELSE IF bits <= Precision
    THEN [s |-> sign, m |-> n * 2 ^ (Precision - bits), e |-> e - (Precision - bits)]
    ELSE LET k == bits - Precision
             q == n \div 2 ^ k
             r == n % 2 ^ k
             half == 2 ^ (k - 1)
             up == r > half \/ (r = half /\ (sticky \/ q % 2 = 1))
             m1 == IF up THEN q + 1 ELSE q
         IN  IF m1 = 2 ^ Precision
             THEN [s |-> sign, m |-> 2 ^ (Precision - 1), e |-> e + k + 1]
             ELSE [s |-> sign, m |-> m1, e |-> e + k]

Sign(n) == IF n > 0 THEN 1 ELSE IF n < 0 THEN -1 ELSE 0

Abs(n) == IF n < 0 THEN 0 - n ELSE n

\* the float nearest to an integer
FromInt(n) == RoundNearestEven(Sign(n), Abs(n), 0, FALSE)

\* x * y
FMul(x, y) ==
    IF x.s = 0 \/ y.s = 0 THEN FZero
    ELSE RoundNearestEven(x.s * y.s, x.m * y.m, x.e + y.e, FALSE)

\* x / y, y non-zero
FDiv(x, y) ==
    IF x.s = 0 THEN FZero
    ELSE LET n == x.m * 2 ^ (Precision + 2)
             q == n \div y.m
         IN  RoundNearestEven(x.s * y.s, q, x.e - y.e - (Precision + 2), n % y.m # 0)

RECURSIVE IsqrtBits(_, _, _)
IsqrtBits(n, r, b) ==
    IF b = 0 THEN r
    ELSE IF r + b <= n \div (r + b) THEN IsqrtBits(n, r + b, b \div 2)
    ELSE IsqrtBits(n, r, b \div 2)

\* floor of the square root of an integer
Isqrt(n) == IsqrtBits(n, 0, 2 ^ ((BitLength(n) + 1) \div 2))

\* sqrt(x), x >= 0
FSqrt(x) ==
    IF x.s = 0 THEN FZero
    ELSE LET j == IF (x.e - (Precision + 2)) % 2 = 0 THEN Precision + 2 ELSE Precision + 3
             n == x.m * 2 ^ j
             r == Isqrt(n)
         IN  RoundNearestEven(1, r, (x.e - j) \div 2, r * r # n)

\* x < y for floats
FLess(x, y) ==
    IF x.s # y.s THEN x.s < y.s
    ELSE IF x.s = 0 THEN FALSE
    ELSE LET lt == IF x.e = y.e THEN x.m < y.m ELSE x.e < y.e
             gt == IF x.e = y.e THEN x.m > y.m ELSE x.e > y.e
         IN  IF x.s = 1 THEN lt ELSE gt

\* Python's min(a, b) and max(a, b): the first argument unless the second
\* is strictly smaller (larger)
min(a, b) == IF FLess(b, a) THEN b ELSE a

max(a, b) == IF FLess(a, b) THEN b ELSE a

(***************************************************************************)
(* similarity.cosine_similarity                                            *)
(***************************************************************************)
\* np.all(vec == 0)
all_zero(vec) == \A i \in DOMAIN vec.data : vec.data[i] = 0

RECURSIVE DotInt(_, _)
DotInt(a, b) ==
    IF a = <<>> THEN 0 ELSE Head(a) * Head(b) + DotInt(Tail(a), Tail(b))

\* np.dot(vec1, vec2): the components are integers small enough for every
\* product and partial sum to be exact, so only the result is rounded
dot(vec1, vec2) == FromInt(DotInt(vec1.data, vec2.data))

\* np.linalg.norm(vec)
norm(vec) == FSqrt(dot(vec, vec))

\* the raw cosine returned without the clamp into [0, 1]
cosine_similarity_unclamped(vec1, vec2) ==
    IF all_zero(vec1) \/ all_zero(vec2)
    THEN [raised |-> FALSE, value |-> FZero]
    ELSE IF vec1.shape # vec2.shape
    THEN [raised |-> TRUE, value |-> FZero]
    ELSE [raised |-> FALSE,
          value |-> FDiv(dot(vec1, vec2), FMul(norm(vec1), norm(vec2)))]

cosine_similarity(vec1, vec2) ==
    IF all_zero(vec1) \/ all_zero(vec2)
    THEN [raised |-> FALSE, value |-> FZero]
    ELSE IF vec1.shape # vec2.shape
    THEN [raised |-> TRUE, value |-> FZero]
    ELSE LET similarity == FDiv(dot(vec1, vec2), FMul(norm(vec1), norm(vec2)))
         IN  [raised |-> FALSE, value |-> max(FZero, min(similarity, FOne))]

(***************************************************************************)
(* similarity.compare_sections                                             *)
(***************************************************************************)
\* a float of [0, 1] as an integer number of 2^-ScoreShift
ScoreShift == Precision + 6

ScoreUnits(x) == x.s * x.m * 2 ^ (x.e + ScoreShift)

\* dict.get(key, default)
Get(d, key, default) == IF key \in DOMAIN d THEN d[key] ELSE default

\* a lookup whose missing weight counts for nothing
weight_of_no_default(k) == Get(weights, k, 0)

\* CONFIG["weights"].get(k, 0.25)
weight_of(k) == Get(weights, k, default_weight)

\* sum(scores[k] * CONFIG["weights"].get(k, 0.25) for k in scores), as an
\* exact number of hundredths of 2^-ScoreShift
RECURSIVE total_score(_)
total_score(scores) ==
    IF scores = <<>> THEN 0
    ELSE ScoreUnits(Head(scores).score) * weight_of(Head(scores).key)
         + total_score(Tail(scores))

NoComparison == [section_scores |-> <<>>, total_score |-> 0]

\* The loop over CONFIG["sections_map"].items() makes two get_embedding
\* calls per pair.  The j-th call of the loop embeds the CV text of pair
\* (j + 1) \div 2 when j is odd and its JD text when j is even.
pair_of(j) == (j + 1) \div 2

embedded_text(j, cv_data, jd_data) ==
    IF j % 2 = 1
    THEN Get(cv_data, sections_map[pair_of(j)][1], <<>>)
    ELSE Get(jd_data, sections_map[pair_of(j)][2], <<>>)

\* line 116: scores[section_key] = cosine_similarity(cv_embedding, jd_embedding)
store_score(acc, i, st, c) ==
    IF c.raised
    THEN [acc EXCEPT !.st = st, !.raised = TRUE]
    ELSE [acc EXCEPT !.st = st,
                     !.scores = Append(@, [key |-> sections_map[i][1] \o "_" \o sections_map[i][2],
                                           score |-> c.value])]

\* the j-th get_embedding call of the loop and, after the JD one, the score
\* of the pair; acc holds the state, the CV embedding of the pair, the
\* scores dict built so far (in insertion order) and whether a call raised
compare_step(acc, j, cv_data, jd_data, be, failAt) ==
    LET is_short_section == Get(section_types, sections_map[pair_of(j)][1], TRUE)
        e == get_embedding(acc.st, embedded_text(j, cv_data, jd_data),
                           is_short_section, be, failAt)
    IN  IF e.raised
        THEN [acc EXCEPT !.st = e.st, !.raised = TRUE]
        ELSE IF j % 2 = 1
        THEN [acc EXCEPT !.st = e.st, !.cv_embedding = e.value]
        ELSE store_score(acc, pair_of(j), e.st,
                         cosine_similarity(acc.cv_embedding, e.value))

RECURSIVE compare_loop(_, _, _, _, _, _)
compare_loop(acc, j, cv_data, jd_data, be, failAt) ==
    IF acc.raised \/ j > 2 * Len(sections_map) THEN acc
    ELSE compare_loop(compare_step(acc, j, cv_data, jd_data, be, failAt),
                      j + 1, cv_data, jd_data, be, failAt)

\* lines 119-127: the weighted total and the returned dict
compare_result(acc) ==
    IF acc.raised
    THEN [st |-> acc.st, raised |-> TRUE, value |-> NoComparison]
    ELSE [st |-> acc.st, raised |-> FALSE,
          value |-> [section_scores |-> acc.scores,
                     total_score |-> total_score(acc.scores)]]

compare_sections(st, cv_data, jd_data, be, failAt) ==
    compare_result(
        compare_loop([st |-> st, raised |-> FALSE, scores |-> <<>>,
                      cv_embedding |-> NoVector],
                     1, cv_data, jd_data, be, failAt))

(***************************************************************************)
(* The module state and the sequential callers.                            *)
(***************************************************************************)
NoKey == <<>>

State ==
    [MODELS |-> MODELS, cache |-> cache, constructed |-> constructed,
     encoded |-> encoded, ops |-> 0, failed |-> NoKey]

Commit(r) ==
    /\ MODELS' = r.st.MODELS
    /\ cache' = r.st.cache
    /\ constructed' = r.st.constructed
    /\ encoded' = r.st.encoded
    /\ failed' = r.st.failed
    /\ failures' = IF r.st.failed # NoKey THEN failures + 1 ELSE failures
    /\ UNCHANGED threads

NoCall == [op |-> "none"]

\* which backend operation of a call may be made to fail: none (0) once
\* MaxFailures failures were injected
FailChoices(n) == IF failures < MaxFailures THEN 0..n ELSE {0}

\* "", " \n", "py"
Texts == { <<>>, <<32, 10>>, <<112, 121>> }

\* "", "py"
SectionTexts == { <<>>, <<112, 121>> }

InitModule ==
    /\ MODELS = [t \in ModelTypes |-> NotLoaded]
    /\ cache = <<>>
    /\ constructed = [t \in ModelTypes |-> 0]
    /\ encoded = <<>>
    /\ failures = 0
    /\ failed = NoKey
    /\ threads = <<>>

Init ==
    /\ InitModule
    /\ call = NoCall
    /\ ret = NoCall

\* one call of get_embedding(text, is_short), text among T
GetEmbeddingOf(T) ==
    \E text \in T, is_short \in BOOLEAN, be \in Backends, failAt \in FailChoices(2) :
        LET r == get_embedding(State, text, is_short, be, failAt) IN
        /\ Commit(r)
        /\ ret' = [op |-> "get_embedding", text |-> text, is_short |-> is_short,
                   raised |-> r.raised, value |-> r.value]
        /\ UNCHANGED call

GetEmbedding == GetEmbeddingOf(Texts)

GetSectionEmbedding == GetEmbeddingOf(SectionTexts)

\* the documents of the sequential callers
CVDocs ==
    { [perfil |-> <<112, 121>>, experiencia |-> <<112, 121>>,
       formacion |-> <<112, 121>>, habilidades |-> <<112, 121>>],
      [perfil |-> <<112, 121>>, experiencia |-> <<32, 10>>, formacion |-> <<>>] }

JDDocs ==
    { [descripcion |-> <<112, 121>>, responsabilidades |-> <<112, 121>>,
       formacion |-> <<112, 121>>, habilidades |-> <<>>] }

\* one call of compare_sections(cv_data, jd_data)
CompareSections ==
    \E cv_data \in CVDocs, jd_data \in JDDocs, be \in Backends, failAt \in FailChoices(4) :
        LET r == compare_sections(State, cv_data, jd_data, be, failAt) IN
        /\ Commit(r)
        /\ ret' = [op |-> "compare_sections", cv_data |-> cv_data, jd_data |-> jd_data,
                   raised |-> r.raised, value |-> r.value]
        /\ UNCHANGED call

Next == GetSectionEmbedding \/ CompareSections

\* get_embedding and compare_sections called one after the other
Spec == Init /\ [][Next]_vars

NextEmbed == GetEmbedding

\* get_embedding called again and again
SpecEmbed == Init /\ [][NextEmbed]_vars

(***************************************************************************)
(* A workload that fills the cache: fresh texts are embedded one after the *)
(* other and the first of them, the probe, is embedded again at any time.  *)
(* call counts the fresh texts used (next), the distinct other keys        *)
(* embedded since the probe was last embedded (others), and keeps the      *)
(* vector the probe's last call returned (vector) and how far back that    *)
(* call found the previous one (gap).                                      *)
(***************************************************************************)
ExtraTexts == 2     \* fresh texts beyond the capacity of the cache

\* the n-th fresh text: one letter, never a whitespace
FreshText(n) == <<256 + n>>

ProbeText == FreshText(0)

ProbeKey == <<ProbeText, TRUE>>

DefaultBackend == << <<1, 0>>, <<1, 1>>, <<0, 1>>, <<-1, 1>>, <<2, 1>> >>

InitLRU ==
    /\ InitModule
    /\ call = [op |-> "workload", next |-> 0, others |-> 0, vector |-> NoVector,
               gap |-> "none"]
    /\ ret = NoCall

\* get_embedding of a text never embedded before
CallFresh ==
    /\ call.next < maxsize + ExtraTexts
    /\ LET text == FreshText(call.next)
           is_short == (call.next % 2 = 0)
           r == get_embedding(State, text, is_short, DefaultBackend, 0)
       IN  /\ Commit(r)
           /\ ret' = [op |-> "get_embedding", text |-> text, is_short |-> is_short,
                      raised |-> r.raised, value |-> r.value]
           /\ call' = [call EXCEPT !.next = @ + 1,
                                   !.others = IF call.next = 0 THEN 0 ELSE @ + 1,
                                   !.vector = IF call.next = 0 THEN r.value ELSE @]

\* get_embedding of the probe once more
CallAgain ==
    /\ call.next > 0
    /\ \E be \in Backends :
        LET r == get_embedding(State, ProbeText, TRUE, be, 0) IN
        /\ Commit(r)
        /\ ret' = [op |-> "get_embedding", text |-> ProbeText, is_short |-> TRUE,
                   raised |-> r.raised, value |-> r.value]
        /\ call' = [call EXCEPT !.others = 0, !.vector = r.value,
                                !.gap = IF call.others >= maxsize THEN "beyond"
                                        ELSE IF call.others = maxsize - 1 THEN "edge"
                                        ELSE "near"]

NextLRU == CallFresh \/ CallAgain

SpecLRU == InitLRU /\ [][NextLRU]_vars

(***************************************************************************)
(* Properties of the embedding cache and provider.                         *)
(***************************************************************************)
\* every code point of the text is a whitespace (the empty text included)
Blank(text) == \A i \in 1..Len(text) : isspace(text[i])

\* C3, as stated: the backend encodes each (text, kind) pair at most once,
\* whatever the sequence of get_embedding calls
C3_EncodedAtMostOnce == \A k \in DOMAIN encoded : encoded[k] <= 1

\* C3, amended: a call of get_embedding for a pair embedded before, with
\* fewer than maxsize distinct other keys embedded since, returns the vector
\* of the earlier call and invokes no backend operation
C3_HitWithinCapacity ==
    [][(/\ ret'.op = "get_embedding"
        /\ ret'.text = ProbeText
        /\ call.next > 0
        /\ call.others < maxsize)
       => (/\ ~ret'.raised
           /\ ret'.value = call.vector
           /\ encoded' = encoded
           /\ constructed' = constructed)]_vars

\* the probe was embedded again after maxsize - 1 other keys and was still
\* a hit
C3_Witness ==
    /\ call.op = "workload"
    /\ call.gap = "edge"
    /\ call.others = 0
    /\ ret.text = ProbeText
    /\ Count(encoded, <<ProbeText, "all-MiniLM-L6-v2">>) = 1

\* C4: a backend failure during a call leaves the call as an exception, with
\* no vector and no comparison result, and leaves nothing in the cache for
\* the key it hit
C4_BackendFailurePropagates ==
    [][failures' > failures
       => (/\ ret'.raised
           /\ ret'.op = "get_embedding" => ret'.value = NoVector
           /\ ret'.op = "compare_sections" => ret'.value = NoComparison
           /\ CacheIndex(cache', failed') = 0
           /\ \A i \in 1..Len(cache') : cache'[i].value.shape # 0)]_vars

\* an encode call failed, and a later compare_sections encoded the same text
\* again and returned
C4_Witness ==
    /\ failures = 1
    /\ ret.op = "compare_sections"
    /\ ~ret.raised
    /\ \E k \in DOMAIN encoded : encoded[k] = 2

\* C5: get_embedding of an empty or whitespace-only text returns the zero
\* vector of length 384 (short) or 768 (long), loads no encoder and encodes
\* nothing
C5_BlankTextZeroVector ==
    [][(ret'.op = "get_embedding" /\ Blank(ret'.text))
       => (/\ ~ret'.raised
           /\ ret'.value.shape = (IF ret'.is_short THEN 384 ELSE 768)
           /\ \A i \in DOMAIN ret'.value.data : ret'.value.data[i] = 0
           /\ MODELS' = MODELS
           /\ constructed' = constructed
           /\ encoded' = encoded)]_vars

\* a whitespace-only text was embedded with the long kind while no encoder
\* was loaded
C5_Witness ==
    /\ ret.op = "get_embedding"
    /\ ret.text = <<32, 10>>
    /\ ~ret.is_short
    /\ ret.value.shape = 768
    /\ MODELS["long"] = NotLoaded

(***************************************************************************)
(* cosine_similarity applied to a pair of vectors.                         *)
(***************************************************************************)
MaxComponent == 2    \* largest absolute value of a vector component

Components == (0 - MaxComponent)..MaxComponent

Shapes == {384, 768}

Vectors == { [shape |-> n, data |-> <<a, b>>] : n \in Shapes, a \in Components, b \in Components }

InitCosine ==
    /\ InitModule
    /\ call \in { [op |-> "cosine_similarity", vec1 |-> v, vec2 |-> w] :
                    v \in Vectors, w \in Vectors }
    /\ ret = NoCall

CosineSimilarity ==
    /\ ret = NoCall
    /\ LET r == cosine_similarity(call.vec1, call.vec2) IN
       ret' = [op |-> "cosine_similarity", raised |-> r.raised, value |-> r.value]
    /\ UNCHANGED <<MODELS, cache, constructed, encoded, failures, failed, threads, call>>

NextCosine == CosineSimilarity

SpecCosine == InitCosine /\ [][NextCosine]_vars

\* C8: cosine_similarity(a, b) = cosine_similarity(b, a), the result lies in
\* [0, 1], and a negative raw cosine is returned as 0
C8_SymmetricAndClamped ==
    ret.op = "cosine_similarity"
    => /\ ret.raised = cosine_similarity(call.vec2, call.vec1).raised
       /\ ret.value = cosine_similarity(call.vec2, call.vec1).value
       /\ ~FLess(ret.value, FZero)
       /\ ~FLess(FOne, ret.value)
       /\ (~ret.raised /\ DotInt(call.vec1.data, call.vec2.data) < 0) => ret.value = FZero

\* two vectors of the same shape at an obtuse angle were compared
C8_Witness ==
    /\ ret.op = "cosine_similarity"
    /\ call.vec1 = [shape |-> 384, data |-> <<1, 0>>]
    /\ call.vec2 = [shape |-> 384, data |-> <<-1, 1>>]
    /\ ~ret.raised
    /\ ret.value = FZero

\* C9: cosine_similarity(v, v) is exactly 1.0 for a non-zero v, and
\* cosine_similarity(zero, x) and cosine_similarity(x, zero) are exactly 0.0
C9_SelfOneZeroZero ==
    ret.op = "cosine_similarity"
    => /\ (call.vec1 = call.vec2 /\ \E i \in 1..2 : call.vec1.data[i] # 0)
              => (~ret.raised /\ ret.value = FOne)
       /\ ((\A i \in 1..2 : call.vec1.data[i] = 0) \/ (\A i \in 1..2 : call.vec2.data[i] = 0))
              => (~ret.raised /\ ret.value = FZero)

(***************************************************************************)
(* evaluator.determine_match_level, the score in ten-thousandths.          *)
(***************************************************************************)
MaxScore == 12000    \* largest score classified, in ten-thousandths

\* the lower edges compared with > instead of >=
determine_match_level_strict(score) ==
    IF score > 7000 THEN "alto"
    ELSE IF score > 5000 THEN "medio"
    ELSE IF score > 3000 THEN "bajo"
    ELSE "muy_bajo"

determine_match_level(score) ==
    IF score >= 7000 THEN "alto"
    ELSE IF score >= 5000 THEN "medio"
    ELSE IF score >= 3000 THEN "bajo"
    ELSE "muy_bajo"

Scores == (0 - 2000)..MaxScore

InitLevel ==
    /\ InitModule
    /\ call \in { [op |-> "determine_match_level", score |-> x] : x \in Scores }
    /\ ret = NoCall

DetermineMatchLevel ==
    /\ ret = NoCall
    /\ ret' = [op |-> "determine_match_level", raised |-> FALSE,
               value |-> determine_match_level(call.score)]
    /\ UNCHANGED <<MODELS, cache, constructed, encoded, failures, failed, threads, call>>

NextLevel == DetermineMatchLevel

SpecLevel == InitLevel /\ [][NextLevel]_vars

\* C7: every score has a level: alto from 0.70 on, medio in [0.50, 0.70),
\* bajo in [0.30, 0.50), muy_bajo below 0.30; so 0.70 is alto, 0.6999 and
\* 0.5 are medio, 0.3 is bajo and 0.0 is muy_bajo
C7_LowerEdgeInclusive ==
    ret.op = "determine_match_level"
    => /\ ret.value \in {"alto", "medio", "bajo", "muy_bajo"}
       /\ ret.value = "alto" <=> call.score >= 7000
       /\ ret.value = "medio" <=> (call.score >= 5000 /\ call.score < 7000)
       /\ ret.value = "bajo" <=> (call.score >= 3000 /\ call.score < 5000)
       /\ ret.value = "muy_bajo" <=> call.score < 3000
       /\ call.score = 7000 => ret.value = "alto"
       /\ call.score \in {6999, 5000} => ret.value = "medio"
       /\ call.score = 3000 => ret.value = "bajo"
       /\ call.score = 0 => ret.value = "muy_bajo"

\* 0.70 was classified
C7_Witness ==
    /\ ret.op = "determine_match_level"
    /\ call.score = 7000
    /\ ret.value = "alto"

(***************************************************************************)
(* compare_sections applied to a pair of documents, the module freshly     *)
(* imported and the backend working.                                       *)
(***************************************************************************)
\* a CV field is missing, " \n" or "py"; a JD field is "", "py" or "sql"
CVFields == {"perfil", "experiencia", "formacion", "habilidades"}

JDFields == {"descripcion", "responsabilidades", "formacion", "habilidades"}

CVData ==
    UNION { [F -> { <<32, 10>>, <<112, 121>> }] : F \in SUBSET CVFields }

JDData == [JDFields -> { <<>>, <<112, 121>>, <<115, 113, 108>> }]

InitCompare ==
    /\ InitModule
    /\ call \in { [op |-> "compare_sections", cv_data |-> cv, jd_data |-> jd] :
                    cv \in CVData, jd \in JDData }
    /\ ret = NoCall

CompareDocuments ==
    /\ ret = NoCall
    /\ \E be \in Backends :
        LET r == compare_sections(State, call.cv_data, call.jd_data, be, 0) IN
        /\ Commit(r)
        /\ ret' = [op |-> "compare_sections", raised |-> r.raised, value |-> r.value]
    /\ UNCHANGED call

NextCompare == CompareDocuments

SpecCompare == InitCompare /\ [][NextCompare]_vars

\* the weights the specification gives to the four pairs, in hundredths
StatedWeights == <<15, 35, 20, 30>>

\* C1: total_score is the sum over the four pairs of similarity x weight
\* with the weights 0.15, 0.35, 0.20, 0.30
C1_TotalIsStatedWeightedSum ==
    (ret.op = "compare_sections" /\ ~ret.raised)
    => /\ Len(ret.value.section_scores) = 4
       /\ ret.value.total_score =
            ScoreUnits(ret.value.section_scores[1].score) * StatedWeights[1]
            + ScoreUnits(ret.value.section_scores[2].score) * StatedWeights[2]
            + ScoreUnits(ret.value.section_scores[3].score) * StatedWeights[3]
            + ScoreUnits(ret.value.section_scores[4].score) * StatedWeights[4]

\* C20: compare_sections returns, and every pair adds its similarity times
\* the weight configured under its composite key, or times 0.25 when the
\* weight table has no such key
C20_MissingWeightDefaults ==
    ret.op = "compare_sections"
    => /\ ~ret.raised
       /\ Len(ret.value.section_scores) = 4
       /\ \A i \in 1..4 :
            ret.value.section_scores[i].key
              = sections_map[i][1] \o "_" \o sections_map[i][2]
       /\ ret.value.total_score =
            SumSeq([i \in 1..4 |->
                ScoreUnits(ret.value.section_scores[i].score)
                * (IF ret.value.section_scores[i].key \in DOMAIN weights
                   THEN weights[ret.value.section_scores[i].key]
                   ELSE 25)])

\* a pair with a configured weight and a pair without one both scored
\* above 0
C20_Witness ==
    /\ ret.op = "compare_sections"
    /\ ~ret.raised
    /\ ret.value.section_scores[1].key \in DOMAIN weights
    /\ ret.value.section_scores[1].score # FZero
    /\ ret.value.section_scores[3].key \notin DOMAIN weights
    /\ ret.value.section_scores[3].score # FZero
    /\ ret.value.total_score > 0

\* C6: a pair whose CV field or JD field is missing, empty or whitespace-only
\* scores exactly 0 and compare_sections returns
C6_BlankSideScoresZero ==
    ret.op = "compare_sections"
    => /\ ~ret.raised
       /\ Len(ret.value.section_scores) = 4
       /\ \A i \in 1..4 :
            (\/ sections_map[i][1] \notin DOMAIN call.cv_data
             \/ Blank(call.cv_data[sections_map[i][1]])
             \/ sections_map[i][2] \notin DOMAIN call.jd_data
             \/ Blank(call.jd_data[sections_map[i][2]]))
            => ret.value.section_scores[i].score = FZero

\* a whitespace-only experiencia met a non-empty responsabilidades, a
\* missing perfil met a non-empty descripcion, and a non-empty formacion met
\* an empty one, while the habilidades pair scored above 0
C6_Witness ==
    /\ ret.op = "compare_sections"
    /\ "perfil" \notin DOMAIN call.cv_data
    /\ call.jd_data["descripcion"] = <<112, 121>>
    /\ "experiencia" \in DOMAIN call.cv_data
    /\ call.cv_data["experiencia"] = <<32, 10>>
    /\ call.jd_data["responsabilidades"] = <<112, 121>>
    /\ "formacion" \in DOMAIN call.cv_data
    /\ call.cv_data["formacion"] = <<112, 121>>
    /\ call.jd_data["formacion"] = <<>>
    /\ ~ret.raised
    /\ ret.value.section_scores[4].score # FZero

(***************************************************************************)
(* get_embedding called by several threads.  A thread runs its call one    *)
(* step at a time and another thread may run between any two steps: the    *)
(* lookup and the store of the lru_cache wrapper are each one step (the    *)
(* wrapper holds no lock while the decorated function runs), and in        *)
(* get_model the test of line 43, the construction and the assignment of   *)
(* line 45 and the read of line 46 are separate steps.                     *)
(***************************************************************************)
NumThreads == 2

Threads == 1..NumThreads

\* the calls of the threads: ("py", True), ("py", False), ("", True)
ThreadCalls == { <<<<112, 121>>, TRUE>>, <<<<112, 121>>, FALSE>>, <<<<>>, TRUE>> }

Idle ==
    [pc |-> "idle", text |-> <<>>, is_short |-> TRUE, model |-> NotLoaded,
     value |-> NoVector]

InitThreads ==
    /\ MODELS = [t \in ModelTypes |-> NotLoaded]
    /\ cache = <<>>
    /\ constructed = [t \in ModelTypes |-> 0]
    /\ encoded = <<>>
    /\ failures = 0
    /\ failed = NoKey
    /\ threads = [t \in Threads |-> Idle]
    /\ call = NoCall
    /\ ret = NoCall

model_type_of(f) == IF f.is_short THEN "short" ELSE "long"

\* the thread enters get_embedding(text, is_short)
Enter(t) ==
    /\ threads[t].pc \in {"idle", "done"}
    /\ \E c \in ThreadCalls :
        threads' = [threads EXCEPT ![t] = [Idle EXCEPT !.pc = "lookup", !.text = c[1],
                                                       !.is_short = c[2]]]
    /\ UNCHANGED <<MODELS, cache, constructed, encoded>>

\* the wrapper looks the key up
Lookup(t) ==
    /\ threads[t].pc = "lookup"
    /\ LET i == CacheIndex(cache, <<threads[t].text, threads[t].is_short>>) IN
       IF i # 0
       THEN /\ cache' = CacheHit(cache, i)
            /\ threads' = [threads EXCEPT ![t].pc = "done", ![t].value = cache[i].value]
       ELSE /\ threads' = [threads EXCEPT ![t].pc = "body"]
            /\ UNCHANGED cache
    /\ UNCHANGED <<MODELS, constructed, encoded>>

\* lines 61-66
Body(t) ==
    /\ threads[t].pc = "body"
    /\ IF threads[t].text = <<>> \/ Len(strip(threads[t].text)) = 0
       THEN threads' = [threads EXCEPT ![t].pc = "store",
                                       ![t].value = zeros(embedding_dim(threads[t].is_short))]
       ELSE threads' = [threads EXCEPT ![t].pc = "test"]
    /\ UNCHANGED <<MODELS, cache, constructed, encoded>>

\* line 43: if model_type not in _MODELS
Test(t) ==
    /\ threads[t].pc = "test"
    /\ IF MODELS[model_type_of(threads[t])] = NotLoaded
       THEN threads' = [threads EXCEPT ![t].pc = "construct"]
       ELSE threads' = [threads EXCEPT ![t].pc = "read"]
    /\ UNCHANGED <<MODELS, cache, constructed, encoded>>

\* line 45, right-hand side: SentenceTransformer(model_name)
Construct(t) ==
    /\ threads[t].pc = "construct"
    /\ LET mt == model_type_of(threads[t])
           serial == constructed[mt] + 1
       IN  /\ constructed' = [constructed EXCEPT ![mt] = serial]
           /\ threads' = [threads EXCEPT ![t].pc = "assign",
                                         ![t].model = [name |-> models[mt], serial |-> serial]]
    /\ UNCHANGED <<MODELS, cache, encoded>>

\* line 45, the assignment to _MODELS[model_type]
Assign(t) ==
    /\ threads[t].pc = "assign"
    /\ MODELS' = [MODELS EXCEPT ![model_type_of(threads[t])] = threads[t].model]
    /\ threads' = [threads EXCEPT ![t].pc = "read"]
    /\ UNCHANGED <<cache, constructed, encoded>>

\* line 46: return _MODELS[model_type]
Read(t) ==
    /\ threads[t].pc = "read"
    /\ threads' = [threads EXCEPT ![t].pc = "encode",
                                  ![t].model = MODELS[model_type_of(threads[t])]]
    /\ UNCHANGED <<MODELS, cache, constructed, encoded>>

\* line 68: model.encode(text, convert_to_numpy=True)
Encode(t) ==
    /\ threads[t].pc = "encode"
    /\ \E be \in Backends :
        threads' = [threads EXCEPT ![t].pc = "store",
                        ![t].value = [shape |-> ModelDim(threads[t].model.name),
                                      data |-> EncodeData(be, threads[t].model.name,
                                                          threads[t].text)]]
    /\ encoded' = Bump(encoded, <<threads[t].text, threads[t].model.name>>)
    /\ UNCHANGED <<MODELS, cache, constructed>>

\* the wrapper stores the result, unless the key was stored while the
\* function ran, and returns the result of this call
Store(t) ==
    /\ threads[t].pc = "store"
    /\ LET key == <<threads[t].text, threads[t].is_short>> IN
       IF CacheIndex(cache, key) # 0
       THEN UNCHANGED cache
       ELSE cache' = CacheStore(cache, key, threads[t].value)
    /\ threads' = [threads EXCEPT ![t].pc = "done"]
    /\ UNCHANGED <<MODELS, constructed, encoded>>

ThreadStep(t) ==
    /\ \/ Enter(t) \/ Lookup(t) \/ Body(t) \/ Test(t) \/ Construct(t)
       \/ Assign(t) \/ Read(t) \/ Encode(t) \/ Store(t)
    /\ UNCHANGED <<failures, failed, call, ret>>

NextThreads == \E t \in Threads : ThreadStep(t)

SpecThreads == InitThreads /\ [][NextThreads]_vars

\* C2: whatever the interleaving of concurrent get_embedding calls, the
\* encoder of each kind is constructed at most once
C2_ConstructedAtMostOnce == \A mt \in ModelTypes : constructed[mt] <= 1

\* C19: in a sequence of get_embedding and compare_sections calls made one
\* after the other, the encoder of each kind is constructed at most once,
\* and an encoder once in _MODELS is neither removed nor replaced
C19_LoadedOnceNeverReplaced ==
    [][\A mt \in ModelTypes :
         /\ constructed'[mt] <= 1
         /\ MODELS'[mt] # NotLoaded <=> constructed'[mt] = 1
         /\ MODELS[mt] # NotLoaded => MODELS'[mt] = MODELS[mt]]_vars

\* both encoders are loaded and a later call used the short one again
C19_Witness ==
    /\ \A mt \in ModelTypes : MODELS[mt] # NotLoaded /\ constructed[mt] = 1
    /\ ret.op = "compare_sections"
    /\ ~ret.raised
    /\ \E k \in DOMAIN encoded : encoded[k] >= 1 /\ k[2] = models["short"]
    /\ Len(cache) >= 3

\* C18: of the concurrent get_embedding calls with one key, only one
\* invokes the encoder backend, and the calls that have returned hold the
\* same vector
C18_InsertOrFetchAtomic ==
    /\ \A k \in DOMAIN encoded : encoded[k] < 2
    /\ \A t1 \in Threads : \A t2 \in Threads :
        (/\ threads[t1].pc = "done" /\ threads[t2].pc = "done"
         /\ threads[t1].text = threads[t2].text
         /\ threads[t1].is_short = threads[t2].is_short)
        => threads[t1].value = threads[t2].value

(***************************************************************************)
(* processor_cvs.identify_sections                                         *)
(*                                                                         *)
(* A pattern is the sequence of its alternatives, and an alternative the   *)
(* sequence of its literal words, two consecutive words being separated in *)
(* the pattern by \s+.                                                     *)
(***************************************************************************)
\* str.lower() of one code point below U+0180: a sequence, since the
\* lower case of U+0130 has two code points
lower_char(c) ==
    IF c \in 65..90 \/ c \in 192..214 \/ c \in 216..222 THEN <<c + 32>>
    ELSE IF c = 304 THEN <<105, 775>>
    ELSE IF c = 376 THEN <<255>>
    ELSE IF \/ (c \in 256..310 /\ c % 2 = 0)
            \/ (c \in 313..327 /\ c % 2 = 1)
            \/ (c \in 330..374 /\ c % 2 = 0)
            \/ (c \in 377..381 /\ c % 2 = 1)
    THEN <<c + 1>>
    ELSE <<c>>

\* str.lower()
RECURSIVE lower(_)
lower(s) ==
    IF s = <<>> THEN <<>>
    ELSE IF Len(s) = 1 THEN lower_char(s[1])
    ELSE lower(SubSeq(s, 1, Len(s) \div 2)) \o lower(SubSeq(s, Len(s) \div 2 + 1, Len(s)))

\* s[a:b] of Python for 0 <= a, 0 <= b
Slice(s, a, b) ==
    LET hi == IF b > Len(s) THEN Len(s) ELSE b IN
    IF a >= hi THEN <<>> ELSE SubSeq(s, a + 1, hi)

\* perfil: datos\s+personales | información\s+personal | perfil |
\*     sobre\s+mi | acerca\s+de\s+mi | experiencia | habilidad |
\*     competencia | capacidad | aptitud | conocimiento
cv_pattern_perfil ==
    <<
       << <<100, 97, 116, 111, 115>>, <<112, 101, 114, 115, 111, 110, 97, 108, 101, 115>> >>,
       << <<105, 110, 102, 111, 114, 109, 97, 99, 105, 243, 110>>, <<112, 101, 114, 115, 111, 110, 97, 108>> >>,
       << <<112, 101, 114, 102, 105, 108>> >>,
       << <<115, 111, 98, 114, 101>>, <<109, 105>> >>,
       << <<97, 99, 101, 114, 99, 97>>, <<100, 101>>, <<109, 105>> >>,
       << <<101, 120, 112, 101, 114, 105, 101, 110, 99, 105, 97>> >>,
       << <<104, 97, 98, 105, 108, 105, 100, 97, 100>> >>,
       << <<99, 111, 109, 112, 101, 116, 101, 110, 99, 105, 97>> >>,
       << <<99, 97, 112, 97, 99, 105, 100, 97, 100>> >>,
       << <<97, 112, 116, 105, 116, 117, 100>> >>,
       << <<99, 111, 110, 111, 99, 105, 109, 105, 101, 110, 116, 111>> >>
    >>

\* formacion: educación | formación | estudios | certificaciones | cursos
cv_pattern_formacion ==
    <<
       << <<101, 100, 117, 99, 97, 99, 105, 243, 110>> >>,
       << <<102, 111, 114, 109, 97, 99, 105, 243, 110>> >>,
       << <<101, 115, 116, 117, 100, 105, 111, 115>> >>,
       << <<99, 101, 114, 116, 105, 102, 105, 99, 97, 99, 105, 111, 110, 101, 115>> >>,
       << <<99, 117, 114, 115, 111, 115>> >>
    >>

\* experiencia: experiencia | experiencia\s+laboral |
\*     experiencia\s+profesional
cv_pattern_experiencia ==
    <<
       << <<101, 120, 112, 101, 114, 105, 101, 110, 99, 105, 97>> >>,
       << <<101, 120, 112, 101, 114, 105, 101, 110, 99, 105, 97>>, <<108, 97, 98, 111, 114, 97, 108>> >>,
       << <<101, 120, 112, 101, 114, 105, 101, 110, 99, 105, 97>>, <<112, 114, 111, 102, 101, 115, 105, 111, 110, 97, 108>> >>
    >>

\* habilidades: habilidades | competencias | capacidades | aptitudes |
\*     conocimientos | skills | stack | tecnologías
cv_pattern_habilidades ==
    <<
       << <<104, 97, 98, 105, 108, 105, 100, 97, 100, 101, 115>> >>,
       << <<99, 111, 109, 112, 101, 116, 101, 110, 99, 105, 97, 115>> >>,
       << <<99, 97, 112, 97, 99, 105, 100, 97, 100, 101, 115>> >>,
       << <<97, 112, 116, 105, 116, 117, 100, 101, 115>> >>,
       << <<99, 111, 110, 111, 99, 105, 109, 105, 101, 110, 116, 111, 115>> >>,
       << <<115, 107, 105, 108, 108, 115>> >>,
       << <<115, 116, 97, 99, 107>> >>,
       << <<116, 101, 99, 110, 111, 108, 111, 103, 237, 97, 115>> >>
    >>

\* section_patterns with a perfil pattern that has no "experiencia"
cv_section_patterns_apart ==
    << [name |-> "perfil",
        pattern |-> SelectSeq(cv_pattern_perfil,
                              LAMBDA alt : alt # cv_pattern_experiencia[1])],
       [name |-> "formacion", pattern |-> cv_pattern_formacion],
       [name |-> "experiencia", pattern |-> cv_pattern_experiencia],
       [name |-> "habilidades", pattern |-> cv_pattern_habilidades] >>

\* section_patterns, in the order of the dict
cv_section_patterns ==
    << [name |-> "perfil", pattern |-> cv_pattern_perfil],
       [name |-> "formacion", pattern |-> cv_pattern_formacion],
       [name |-> "experiencia", pattern |-> cv_pattern_experiencia],
       [name |-> "habilidades", pattern |-> cv_pattern_habilidades] >>

\* the literal word w is in s at offset p (0-based)
WordAt(w, s, p) == p + Len(w) <= Len(s) /\ SubSeq(s, p + 1, p + Len(w)) = w

\* the offsets where a run of whitespace starting at p may end: \s+
RECURSIVE SpaceEnds(_, _)
SpaceEnds(s, p) ==
    IF p < Len(s) /\ isspace(s[p + 1]) THEN {p + 1} \cup SpaceEnds(s, p + 1) ELSE {}

\* the words from the k-th on match s at offset p
RECURSIVE WordsAt(_, _, _, _)
WordsAt(words, k, s, p) ==
    /\ WordAt(words[k], s, p)
    /\ \/ k = Len(words)
       \/ \E q \in SpaceEnds(s, p + Len(words[k])) : WordsAt(words, k + 1, s, q)

\* some alternative of the pattern matches s at offset p
MatchAt(pattern, s, p) == \E a \in 1..Len(pattern) : WordsAt(pattern[a], 1, s, p)

\* a search that reports offset 0 when nothing matches
search_start_zero(pattern, s) ==
    IF \E p \in 0..Len(s) : MatchAt(pattern, s, p)
    THEN CHOOSE p \in 0..Len(s) :
            /\ MatchAt(pattern, s, p)
            /\ \A q \in 0..(p - 1) : ~MatchAt(pattern, s, q)
    ELSE 0

\* re.search(pattern, s): the start of the leftmost match, -1 without a match
search_start(pattern, s) ==
    IF \E p \in 0..Len(s) : MatchAt(pattern, s, p)
    THEN CHOOSE p \in 0..Len(s) :
            /\ MatchAt(pattern, s, p)
            /\ \A q \in 0..(p - 1) : ~MatchAt(pattern, s, q)
    ELSE 0 - 1

\* lines 41-44: section_starts, a dict in insertion order, built from the
\* k-th pattern on
RECURSIVE section_starts(_, _, _)
section_starts(patterns, k, text_lower) ==
    IF k > Len(patterns) THEN <<>>
    ELSE LET start == search_start(patterns[k].pattern, text_lower) IN
         (IF start >= 0 THEN <<[name |-> patterns[k].name, start |-> start]>> ELSE <<>>)
         \o section_starts(patterns, k + 1, text_lower)

\* an insertion that puts an item before the items of equal start: a sort
\* that is not stable
RECURSIVE Insert_before_equal(_, _)
Insert_before_equal(sorted, x) ==
    IF sorted = <<>> THEN <<x>>
    ELSE IF x.start <= Head(sorted).start THEN <<x>> \o sorted
    ELSE <<Head(sorted)>> \o Insert_before_equal(Tail(sorted), x)

\* sorted(items, key=lambda x: x[1]): a stable insertion sort
RECURSIVE Insert(_, _)
Insert(sorted, x) ==
    IF sorted = <<>> THEN <<x>>
    ELSE IF x.start < Head(sorted).start THEN <<x>> \o sorted
    ELSE <<Head(sorted)>> \o Insert(Tail(sorted), x)

RECURSIVE SortByStart(_)
SortByStart(items) ==
    IF items = <<>> THEN <<>>
    ELSE Insert(SortByStart(SubSeq(items, 1, Len(items) - 1)), items[Len(items)])

\* the starts left in the order of the patterns
sorted_sections_unsorted(patterns, text) == section_starts(patterns, 1, lower(text))

\* lines 27-51
sorted_sections(patterns, text) == SortByStart(section_starts(patterns, 1, lower(text)))

\* lines 57-66: the content of the i-th section in the order of the starts
section_content(sorted, i, text) ==
    IF i = Len(sorted)
    THEN Slice(text, sorted[i].start, Len(text))
    ELSE Slice(text, sorted[i].start, sorted[i + 1].start)

\* the dict identify_sections returns, in insertion order
sections_of(patterns, text) ==
    LET sorted == sorted_sections(patterns, text) IN
    [i \in 1..Len(sorted) |->
        [name |-> sorted[i].name, content |-> strip(section_content(sorted, i, text))]]

identify_sections(text) == sections_of(cv_section_patterns, text)

(***************************************************************************)
(* identify_sections applied to a CV made of the four headers "Perfil:",   *)
(* "Experiencia:", "Formación:", "Habilidades:", each followed by a body   *)
(* without any section keyword.                                            *)
(***************************************************************************)
\* "Perfil:", "Experiencia:", "Formación:", "Habilidades:"
Headers ==
    << <<80, 101, 114, 102, 105, 108, 58>>,
       <<69, 120, 112, 101, 114, 105, 101, 110, 99, 105, 97, 58>>,
       <<70, 111, 114, 109, 97, 99, 105, 243, 110, 58>>,
       <<72, 97, 98, 105, 108, 105, 100, 97, 100, 101, 115, 58>> >>

\* "", " x\n", " İ\n", " Ana, 2020 \n"
Bodies == { <<>>, <<32, 120, 10>>,
            <<32, 304, 10>>, <<32, 65, 110, 97, 44, 32, 50, 48, 50, 48, 32, 10>> }

\* header 1, body 1, ..., header 4, body 4
HeaderDocument(bodies) ==
    Headers[1] \o bodies[1] \o Headers[2] \o bodies[2]
    \o Headers[3] \o bodies[3] \o Headers[4] \o bodies[4]

InitSegment ==
    /\ InitModule
    /\ call \in { [op |-> "identify_sections", bodies |-> b, text |-> HeaderDocument(b)] :
                    b \in [1..4 -> Bodies] }
    /\ ret = NoCall

IdentifySections ==
    /\ ret = NoCall
    /\ ret' = [op |-> "identify_sections", raised |-> FALSE,
               value |-> identify_sections(call.text)]
    /\ UNCHANGED <<MODELS, cache, constructed, encoded, failures, failed, threads, call>>

NextSegment == IdentifySections

SpecSegment == InitSegment /\ [][NextSegment]_vars

\* the offset of the i-th header in the document
HeaderOffset(bodies, i) ==
    IF i = 1 THEN 0
    ELSE IF i = 2 THEN Len(Headers[1]) + Len(bodies[1])
    ELSE IF i = 3 THEN Len(Headers[1]) + Len(bodies[1]) + Len(Headers[2]) + Len(bodies[2])
    ELSE IF i = 4 THEN Len(Headers[1]) + Len(bodies[1]) + Len(Headers[2]) + Len(bodies[2])
                       + Len(Headers[3]) + Len(bodies[3])
    ELSE Len(HeaderDocument(bodies))

\* C10: the four sections come out in the order perfil, experiencia,
\* formacion, habilidades, each holding the text from its own header to the
\* next header (to the end of the document for the last one)
C10_FourSectionsAtHeaders ==
    ret.op = "identify_sections"
    => /\ Len(ret.value) = 4
       /\ <<ret.value[1].name, ret.value[2].name, ret.value[3].name, ret.value[4].name>>
            = <<"perfil", "experiencia", "formacion", "habilidades">>
       /\ \A i \in 1..4 :
            ret.value[i].content
              = strip(SubSeq(call.text, HeaderOffset(call.bodies, i) + 1,
                             HeaderOffset(call.bodies, i + 1)))

(***************************************************************************)
(* processor_jds.identify_sections: the same function with the patterns of *)
(* a job description. Their words are separated by one literal space, so   *)
(* an alternative is one literal word.                                     *)
(***************************************************************************)
\* descripcion: sobre el rol | descripción del puesto | acerca del rol |
\*     oportunidad laboral | acerca de la posición | descripción |
\*     sobre nosotros | buscamos | búsqueda | busqueda | oportunidad
jd_pattern_descripcion ==
    <<
       << <<115, 111, 98, 114, 101, 32, 101, 108, 32, 114, 111, 108>> >>,
       << <<100, 101, 115, 99, 114, 105, 112, 99, 105, 243, 110, 32, 100, 101, 108, 32, 112, 117, 101, 115, 116, 111>> >>,
       << <<97, 99, 101, 114, 99, 97, 32, 100, 101, 108, 32, 114, 111, 108>> >>,
       << <<111, 112, 111, 114, 116, 117, 110, 105, 100, 97, 100, 32, 108, 97, 98, 111, 114, 97, 108>> >>,
       << <<97, 99, 101, 114, 99, 97, 32, 100, 101, 32, 108, 97, 32, 112, 111, 115, 105, 99, 105, 243, 110>> >>,
       << <<100, 101, 115, 99, 114, 105, 112, 99, 105, 243, 110>> >>,
       << <<115, 111, 98, 114, 101, 32, 110, 111, 115, 111, 116, 114, 111, 115>> >>,
       << <<98, 117, 115, 99, 97, 109, 111, 115>> >>,
       << <<98, 250, 115, 113, 117, 101, 100, 97>> >>,
       << <<98, 117, 115, 113, 117, 101, 100, 97>> >>,
       << <<111, 112, 111, 114, 116, 117, 110, 105, 100, 97, 100>> >>
    >>

\* responsabilidades: responsabilidades | funciones | tareas |
\*     actividades | lo que harás | objetivos | responsabilidades clave |
\*     objetivo
jd_pattern_responsabilidades ==
    <<
       << <<114, 101, 115, 112, 111, 110, 115, 97, 98, 105, 108, 105, 100, 97, 100, 101, 115>> >>,
       << <<102, 117, 110, 99, 105, 111, 110, 101, 115>> >>,
       << <<116, 97, 114, 101, 97, 115>> >>,
       << <<97, 99, 116, 105, 118, 105, 100, 97, 100, 101, 115>> >>,
       << <<108, 111, 32, 113, 117, 101, 32, 104, 97, 114, 225, 115>> >>,
       << <<111, 98, 106, 101, 116, 105, 118, 111, 115>> >>,
       << <<114, 101, 115, 112, 111, 110, 115, 97, 98, 105, 108, 105, 100, 97, 100, 101, 115, 32, 99, 108, 97, 118, 101>> >>,
       << <<111, 98, 106, 101, 116, 105, 118, 111>> >>
    >>

\* formacion: formación | académica | académicos | educación | estudios |
\*     certificación | certificaciones | profesional | perfil |
\*     experiencia requerida
jd_pattern_formacion ==
    <<
       << <<102, 111, 114, 109, 97, 99, 105, 243, 110>> >>,
       << <<97, 99, 97, 100, 233, 109, 105, 99, 97>> >>,
       << <<97, 99, 97, 100, 233, 109, 105, 99, 111, 115>> >>,
       << <<101, 100, 117, 99, 97, 99, 105, 243, 110>> >>,
       << <<101, 115, 116, 117, 100, 105, 111, 115>> >>,
       << <<99, 101, 114, 116, 105, 102, 105, 99, 97, 99, 105, 243, 110>> >>,
       << <<99, 101, 114, 116, 105, 102, 105, 99, 97, 99, 105, 111, 110, 101, 115>> >>,
       << <<112, 114, 111, 102, 101, 115, 105, 111, 110, 97, 108>> >>,
       << <<112, 101, 114, 102, 105, 108>> >>,
       << <<101, 120, 112, 101, 114, 105, 101, 110, 99, 105, 97, 32, 114, 101, 113, 117, 101, 114, 105, 100, 97>> >>
    >>

\* habilidades: habilidades | competencias | conocimientos | skills |
\*     competencias clave | certificaciones | tecnologías | herramientas |
\*     lenguajes | sistemas | stack
jd_pattern_habilidades ==
    <<
       << <<104, 97, 98, 105, 108, 105, 100, 97, 100, 101, 115>> >>,
       << <<99, 111, 109, 112, 101, 116, 101, 110, 99, 105, 97, 115>> >>,
       << <<99, 111, 110, 111, 99, 105, 109, 105, 101, 110, 116, 111, 115>> >>,
       << <<115, 107, 105, 108, 108, 115>> >>,
       << <<99, 111, 109, 112, 101, 116, 101, 110, 99, 105, 97, 115, 32, 99, 108, 97, 118, 101>> >>,
       << <<99, 101, 114, 116, 105, 102, 105, 99, 97, 99, 105, 111, 110, 101, 115>> >>,
       << <<116, 101, 99, 110, 111, 108, 111, 103, 237, 97, 115>> >>,
       << <<104, 101, 114, 114, 97, 109, 105, 101, 110, 116, 97, 115>> >>,
       << <<108, 101, 110, 103, 117, 97, 106, 101, 115>> >>,
       << <<115, 105, 115, 116, 101, 109, 97, 115>> >>,
       << <<115, 116, 97, 99, 107>> >>
    >>

\* section_patterns of processor_jds, in the order of the dict
jd_section_patterns ==
    << [name |-> "descripcion", pattern |-> jd_pattern_descripcion],
       [name |-> "responsabilidades", pattern |-> jd_pattern_responsabilidades],
       [name |-> "formacion", pattern |-> jd_pattern_formacion],
       [name |-> "habilidades", pattern |-> jd_pattern_habilidades] >>

\* processor_jds.identify_sections
jd_identify_sections(text) == sections_of(jd_section_patterns, text)

\* lines 57-64 (CV), 90-97 (JD): the slice bounds of each section, the text
\* they cut out of the document, and the offsets they were found at
section_spans(patterns, text) ==
    LET sorted == sorted_sections(patterns, text) IN
    [i \in 1..Len(sorted) |->
        [name |-> sorted[i].name,
         start |-> sorted[i].start,
         stop |-> IF i = Len(sorted) THEN Len(text) ELSE sorted[i + 1].start,
         raw |-> section_content(sorted, i, text)]]

(***************************************************************************)
(* identify_sections of both processors applied to documents assembled     *)
(* from fragments: section keywords of either pattern set in any order and *)
(* letter case, text without keywords, and a letter whose lower case is    *)
(* longer than the letter.                                                 *)
(***************************************************************************)
DocParts == 3     \* fragments in one document

\* "Perfil\n", "EXPERIENCIA laboral\n", "Formación: ", "skills ", "Funciones\n",
\* "Buscamos ", "hola, 2020\n", "İ", "datos \n personales ", "Certificaciones "
Fragments ==
    { <<80, 101, 114, 102, 105, 108, 10>>,
      <<69, 88, 80, 69, 82, 73, 69, 78, 67, 73, 65, 32, 108, 97, 98, 111, 114, 97, 108, 10>>,
      <<70, 111, 114, 109, 97, 99, 105, 243, 110, 58, 32>>,
      <<115, 107, 105, 108, 108, 115, 32>>,
      <<70, 117, 110, 99, 105, 111, 110, 101, 115, 10>>,
      <<66, 117, 115, 99, 97, 109, 111, 115, 32>>,
      <<104, 111, 108, 97, 44, 32, 50, 48, 50, 48, 10>>,
      <<304>>,
      <<100, 97, 116, 111, 115, 32, 10, 32, 112, 101, 114, 115, 111, 110, 97, 108, 101, 115, 32>>,
      <<67, 101, 114, 116, 105, 102, 105, 99, 97, 99, 105, 111, 110, 101, 115, 32>> }

\* the fragments without a keyword of the CV patterns, of the JD patterns
CVPlain == { <<70, 117, 110, 99, 105, 111, 110, 101, 115, 10>>,
             <<66, 117, 115, 99, 97, 109, 111, 115, 32>>,
             <<104, 111, 108, 97, 44, 32, 50, 48, 50, 48, 10>>,
             <<304>> }

JDPlain == { <<104, 111, 108, 97, 44, 32, 50, 48, 50, 48, 10>>,
             <<304>>,
             <<100, 97, 116, 111, 115, 32, 10, 32, 112, 101, 114, 115, 111, 110, 97, 108, 101, 115, 32>> }

Sides == {"cv", "jd"}

patterns_of(side) == IF side = "cv" THEN cv_section_patterns ELSE jd_section_patterns

RECURSIVE Concat(_)
Concat(parts) == IF parts = <<>> THEN <<>> ELSE Head(parts) \o Concat(Tail(parts))

InitSections ==
    /\ InitModule
    /\ call \in { [op |-> "identify_sections", side |-> side, parts |-> parts,
                   text |-> Concat(parts)] :
                    side \in Sides, parts \in [1..DocParts -> Fragments] }
    /\ ret = NoCall

\* identify_sections of the processor of call.side
IdentifySectionsOf ==
    /\ ret = NoCall
    /\ ret' = [op |-> "identify_sections", raised |-> FALSE,
               value |-> IF call.side = "cv" THEN identify_sections(call.text)
                         ELSE jd_identify_sections(call.text),
               spans |-> section_spans(patterns_of(call.side), call.text)]
    /\ UNCHANGED <<MODELS, cache, constructed, encoded, failures, failed, threads, call>>

NextSections == IdentifySectionsOf

SpecSections == InitSections /\ [][NextSections]_vars

RECURSIVE ConcatRaw(_, _)
ConcatRaw(spans, i) ==
    IF i > Len(spans) THEN <<>> ELSE spans[i].raw \o ConcatRaw(spans, i + 1)

\* C11: the spans are in ascending order of start, each one ends where the
\* next one starts, the last one ends at the end of the document, and
\* together they hold exactly the text from the first start to the end
C11_SpansOrderedContiguous ==
    (ret.op = "identify_sections" /\ Len(ret.spans) > 0)
    => /\ \A i \in 1..(Len(ret.spans) - 1) :
            /\ ret.spans[i].start <= ret.spans[i + 1].start
            /\ ret.spans[i].stop = ret.spans[i + 1].start
       /\ ret.spans[Len(ret.spans)].stop = Len(call.text)
       /\ ConcatRaw(ret.spans, 1) = Slice(call.text, ret.spans[1].start, Len(call.text))
       /\ \A i \in 1..Len(ret.spans) :
            /\ ret.value[i].name = ret.spans[i].name
            /\ ret.value[i].content = strip(ret.spans[i].raw)

\* a job description whose sections are found in the reverse of the order
\* of the patterns
C11_Witness ==
    /\ ret.op = "identify_sections"
    /\ call.side = "jd"
    /\ Len(ret.spans) = 3
    /\ ret.spans[1].name = "habilidades"
    /\ ret.spans[3].name = "descripcion"
    /\ ret.spans[1].start < ret.spans[2].start

\* C12: a text without any keyword of the pattern set has no section
C12_NoKeywordNoSection ==
    (/\ ret.op = "identify_sections"
     /\ \A i \in 1..DocParts :
            call.parts[i] \in (IF call.side = "cv" THEN CVPlain ELSE JDPlain))
    => ret.value = <<>>

C12_Witness ==
    /\ ret.op = "identify_sections"
    /\ call.side = "cv"
    /\ call.parts[1] \in CVPlain /\ call.parts[2] \in CVPlain /\ call.parts[3] \in CVPlain
    /\ call.parts[1] # call.parts[2]
    /\ ret.value = <<>>

(***************************************************************************)
(* normalize_text of both processors.                                      *)
(*                                                                         *)
(* An argument that may be None is a record: [type |-> "NoneType"] or      *)
(* [type |-> "str", value |-> the code points]. A function that may raise  *)
(* returns [raised, value].                                                *)
(***************************************************************************)
None == [type |-> "NoneType"]

Str(s) == [type |-> "str", value |-> s]

\* the truth value of None or of a str
truthy(x) == x.type = "str" /\ x.value # <<>>

\* \w of re for a str pattern: the alphanumeric code points below U+0180
\* and the underscore
is_word(c) ==
    \/ c \in 48..57 \/ c \in 65..90 \/ c = 95 \/ c \in 97..122
    \/ c \in {170, 178, 179, 181, 185, 186, 188, 189, 190}
    \/ c \in 192..214 \/ c \in 216..246 \/ c \in 248..383

\* \d of re: the decimal digits below U+0180
is_digit(c) == c \in 48..57

\* [^\w\s,áéíóúüñ] replaced by a space
sub_special(s) ==
    [i \in 1..Len(s) |->
        IF \/ is_word(s[i]) \/ isspace(s[i]) \/ s[i] = 44
           \/ s[i] \in {225, 233, 237, 243, 250, 252, 241}
        THEN s[i] ELSE 32]

\* whitespace left as it is, the newlines too
sub_spaces_kept(s) == s

\* \s+ replaced by one space
sub_spaces(s) ==
    SelectSeq([i \in 1..Len(s) |->
                  IF ~isspace(s[i]) THEN s[i]
                  ELSE IF i > 1 /\ isspace(s[i - 1]) THEN 0 - 1 ELSE 32],
              LAMBDA c : c >= 0)

\* a normalization whose substitution spares the plus sign
normalized_str_plus(s) ==
    strip(sub_spaces([i \in 1..Len(lower(s)) |->
                        IF lower(s)[i] = 43 THEN 43 ELSE sub_special(lower(s))[i]]))

\* lines 78-86 (CV), 115-123 (JD)
normalized_str(s) == strip(sub_spaces(sub_special(lower(s))))

\* processor_cvs.normalize_text: None has no lower()
normalize_text(text) ==
    IF text.type # "str" THEN [raised |-> TRUE, value |-> <<>>]
    ELSE [raised |-> FALSE, value |-> normalized_str(text.value)]

\* processor_jds.normalize_text
jd_normalize_text(text) ==
    IF ~truthy(text) THEN [raised |-> FALSE, value |-> <<>>]
    ELSE [raised |-> FALSE, value |-> normalized_str(text.value)]

(***************************************************************************)
(* normalize_text applied to None and to every short string over an        *)
(* alphabet with upper-case and accented letters, a digit, the underscore, *)
(* punctuation and whitespace.                                             *)
(***************************************************************************)
MaxLen == 4       \* code points in one string

\* "A", "É", "İ", "z", "5", "_", ",", "-", " ", "\n"
Alphabet == {65, 201, 304, 122, 53, 95, 44, 45, 32, 10}

RECURSIVE StringsUpTo(_)
StringsUpTo(n) ==
    IF n = 0 THEN { <<>> }
    ELSE StringsUpTo(n - 1)
         \cup { Append(t, c) : t \in { u \in StringsUpTo(n - 1) : Len(u) = n - 1 },
                               c \in Alphabet }

InitNormalize ==
    /\ InitModule
    /\ call \in { [op |-> "normalize_text", side |-> side, text |-> x] :
                    side \in Sides,
                    x \in {None} \cup { Str(t) : t \in StringsUpTo(MaxLen) } }
    /\ ret = NoCall

\* normalize_text of the processor of call.side
NormalizeText ==
    /\ ret = NoCall
    /\ LET r == IF call.side = "cv" THEN normalize_text(call.text)
                ELSE jd_normalize_text(call.text) IN
       ret' = [op |-> "normalize_text", raised |-> r.raised, value |-> r.value]
    /\ UNCHANGED <<MODELS, cache, constructed, encoded, failures, failed, threads, call>>

NextNormalize == NormalizeText

SpecNormalize == InitNormalize /\ [][NextNormalize]_vars

\* a letter that is its own lower case
is_lower_letter(c) ==
    /\ is_word(c)
    /\ ~is_digit(c)
    /\ c \notin {95, 178, 179, 185, 188, 189, 190}
    /\ lower_char(c) = <<c>>
    /\ c \notin 65..90

\* C15: the normalized text of a string holds only lower-case letters,
\* digits, commas and single spaces, and neither starts nor ends with a
\* space
C15_OnlyLettersDigitsCommasSpaces ==
    (ret.op = "normalize_text" /\ call.text.type = "str" /\ ~ret.raised)
    => /\ \A i \in 1..Len(ret.value) :
            \/ is_lower_letter(ret.value[i])
            \/ is_digit(ret.value[i])
            \/ ret.value[i] \in {44, 32}
       /\ \A i \in 1..(Len(ret.value) - 1) :
            ~(ret.value[i] = 32 /\ ret.value[i + 1] = 32)
       /\ ret.value # <<>> => (ret.value[1] # 32 /\ ret.value[Len(ret.value)] # 32)

\* C16: normalize_text of None and of the empty string is the empty
\* string, without an exception
C16_EmptyOrNoneGivesEmpty ==
    (ret.op = "normalize_text" /\ ~truthy(call.text))
    => (~ret.raised /\ ret.value = <<>>)

(***************************************************************************)
(* Python str and re helpers of the field extractors.                      *)
(***************************************************************************)
\* sub in s
Contains(sub, s) ==
    \E p \in 0..(Len(s) - Len(sub)) : SubSeq(s, p + 1, p + Len(sub)) = sub

\* any(keyword in line for keyword in keywords)
AnyIn(keywords, line) == \E k \in 1..Len(keywords) : Contains(keywords[k], line)

\* the offsets 1..Len(s) of s that satisfy keep, in ascending order
offsets_where(s, keep(_)) == SelectSeq([i \in 1..Len(s) |-> i], keep)

\* str.split(): the maximal runs of code points that are not whitespace
split(s) ==
    LET first == offsets_where(s, LAMBDA i : ~isspace(s[i]) /\ (i = 1 \/ isspace(s[i - 1])))
        last == offsets_where(s, LAMBDA i : ~isspace(s[i]) /\ (i = Len(s) \/ isspace(s[i + 1])))
    IN [k \in 1..Len(first) |-> SubSeq(s, first[k], last[k])]

\* str.split(chr(c)): never empty, one more item than occurrences of c
split_on(s, c) ==
    LET cuts == offsets_where(s, LAMBDA i : s[i] = c) IN
    [k \in 1..(Len(cuts) + 1) |->
        SubSeq(s, IF k = 1 THEN 1 ELSE cuts[k - 1] + 1,
                  IF k = Len(cuts) + 1 THEN Len(s) ELSE cuts[k] - 1)]

\* sep.join(items)
RECURSIVE join(_, _)
join(sep, items) ==
    IF items = <<>> THEN <<>>
    ELSE IF Len(items) = 1 THEN items[1]
    ELSE join(sep, SubSeq(items, 1, Len(items) \div 2)) \o sep
         \o join(sep, SubSeq(items, Len(items) \div 2 + 1, Len(items)))

\* s.startswith(chr(c))
startswith(s, c) == s # <<>> /\ s[1] = c

\* s.lstrip(chars)
RECURSIVE lstrip_chars(_, _)
lstrip_chars(s, chars) ==
    IF s = <<>> THEN <<>>
    ELSE IF Head(s) \in chars THEN lstrip_chars(Tail(s), chars) ELSE s

\* \b of re at offset p of s: exactly one of the code points on its two
\* sides is a word character
boundary(s, p) ==
    (p > 0 /\ is_word(s[p])) # (p < Len(s) /\ is_word(s[p + 1]))

\* re.search(r'\b(19|20)\d{2}\b', s) finds a match
has_year(s) ==
    \E p \in 0..(Len(s) - 4) :
        /\ boundary(s, p)
        /\ SubSeq(s, p + 1, p + 2) \in { <<49, 57>>, <<50, 48>> }
        /\ is_digit(s[p + 3]) /\ is_digit(s[p + 4])
        /\ boundary(s, p + 4)

\* [x for x in items if keep(x)], keep being "x.strip() is not empty"
RECURSIVE non_blank(_)
non_blank(items) ==
    IF items = <<>> THEN <<>>
    ELSE (IF strip(Head(items)) # <<>> THEN <<Head(items)>> ELSE <<>>)
         \o non_blank(Tail(items))

\* items[:n]
first_n(items, n) == SubSeq(items, 1, IF Len(items) < n THEN Len(items) ELSE n)

(***************************************************************************)
(* The field extractors of processor_cvs.                                  *)
(***************************************************************************)
max_words == 200          \* words kept of a free-text field
max_fallback_lines == 5   \* lines kept when no line was selected
max_skill_words == 5      \* words of a line taken as one skill

\* education_keywords of processor_cvs.extract_education
\* licenciatura, licenciado, ingeniero, ingeniería, técnico, máster,
\* master, doctorado, phd, grado, bachiller, profesional, maestría,
\* diplomado, curso, certificación, certificado, formación,
\* especialización, postgrado
education_keywords ==
    << <<108, 105, 99, 101, 110, 99, 105, 97, 116, 117, 114, 97>>,
       <<108, 105, 99, 101, 110, 99, 105, 97, 100, 111>>,
       <<105, 110, 103, 101, 110, 105, 101, 114, 111>>,
       <<105, 110, 103, 101, 110, 105, 101, 114, 237, 97>>,
       <<116, 233, 99, 110, 105, 99, 111>>,
       <<109, 225, 115, 116, 101, 114>>,
       <<109, 97, 115, 116, 101, 114>>,
       <<100, 111, 99, 116, 111, 114, 97, 100, 111>>,
       <<112, 104, 100>>,
       <<103, 114, 97, 100, 111>>,
       <<98, 97, 99, 104, 105, 108, 108, 101, 114>>,
       <<112, 114, 111, 102, 101, 115, 105, 111, 110, 97, 108>>,
       <<109, 97, 101, 115, 116, 114, 237, 97>>,
       <<100, 105, 112, 108, 111, 109, 97, 100, 111>>,
       <<99, 117, 114, 115, 111>>,
       <<99, 101, 114, 116, 105, 102, 105, 99, 97, 99, 105, 243, 110>>,
       <<99, 101, 114, 116, 105, 102, 105, 99, 97, 100, 111>>,
       <<102, 111, 114, 109, 97, 99, 105, 243, 110>>,
       <<101, 115, 112, 101, 99, 105, 97, 108, 105, 122, 97, 99, 105, 243, 110>>,
       <<112, 111, 115, 116, 103, 114, 97, 100, 111>> >>

\* position_keywords of processor_cvs.extract_experience
\* director, gerente, jefe, coordinador, supervisor, analista,
\* desarrollador, ingeniero, técnico, asistente, consultor, encargado,
\* responsable
position_keywords ==
    << <<100, 105, 114, 101, 99, 116, 111, 114>>,
       <<103, 101, 114, 101, 110, 116, 101>>,
       <<106, 101, 102, 101>>,
       <<99, 111, 111, 114, 100, 105, 110, 97, 100, 111, 114>>,
       <<115, 117, 112, 101, 114, 118, 105, 115, 111, 114>>,
       <<97, 110, 97, 108, 105, 115, 116, 97>>,
       <<100, 101, 115, 97, 114, 114, 111, 108, 108, 97, 100, 111, 114>>,
       <<105, 110, 103, 101, 110, 105, 101, 114, 111>>,
       <<116, 233, 99, 110, 105, 99, 111>>,
       <<97, 115, 105, 115, 116, 101, 110, 116, 101>>,
       <<99, 111, 110, 115, 117, 108, 116, 111, 114>>,
       <<101, 110, 99, 97, 114, 103, 97, 100, 111>>,
       <<114, 101, 115, 112, 111, 110, 115, 97, 98, 108, 101>> >>

\* technical_skills of processor_cvs.extract_skills
\* java, python, c++, javascript, html, css, sql, php, ruby, excel, word,
\* powerpoint, linux, windows, docker, aws, azure, office, sap, jira, git,
\* react, angular, vue, node.js, django, flask, spring, rest, api, mongodb,
\* mysql, postgresql, oracle
technical_skills ==
    << <<106, 97, 118, 97>>,
       <<112, 121, 116, 104, 111, 110>>,
       <<99, 43, 43>>,
       <<106, 97, 118, 97, 115, 99, 114, 105, 112, 116>>,
       <<104, 116, 109, 108>>,
       <<99, 115, 115>>,
       <<115, 113, 108>>,
       <<112, 104, 112>>,
       <<114, 117, 98, 121>>,
       <<101, 120, 99, 101, 108>>,
       <<119, 111, 114, 100>>,
       <<112, 111, 119, 101, 114, 112, 111, 105, 110, 116>>,
       <<108, 105, 110, 117, 120>>,
       <<119, 105, 110, 100, 111, 119, 115>>,
       <<100, 111, 99, 107, 101, 114>>,
       <<97, 119, 115>>,
       <<97, 122, 117, 114, 101>>,
       <<111, 102, 102, 105, 99, 101>>,
       <<115, 97, 112>>,
       <<106, 105, 114, 97>>,
       <<103, 105, 116>>,
       <<114, 101, 97, 99, 116>>,
       <<97, 110, 103, 117, 108, 97, 114>>,
       <<118, 117, 101>>,
       <<110, 111, 100, 101, 46, 106, 115>>,
       <<100, 106, 97, 110, 103, 111>>,
       <<102, 108, 97, 115, 107>>,
       <<115, 112, 114, 105, 110, 103>>,
       <<114, 101, 115, 116>>,
       <<97, 112, 105>>,
       <<109, 111, 110, 103, 111, 100, 98>>,
       <<109, 121, 115, 113, 108>>,
       <<112, 111, 115, 116, 103, 114, 101, 115, 113, 108>>,
       <<111, 114, 97, 99, 108, 101>> >>

\* no limit on the number of words
truncate_words_all(normalized) == normalized

\* lines 98-100 (CV), 143-145 (JD): at most the first max_words words
truncate_words(normalized) ==
    IF Len(split(normalized)) > max_words
    THEN join(<<32>>, first_n(split(normalized), max_words))
    ELSE normalized

\* processor_cvs.extract_profile
extract_profile(section_text) ==
    LET n == normalize_text(Str(section_text)) IN
    IF n.raised THEN n
    ELSE [raised |-> FALSE, value |-> truncate_words(n.value)]

\* lines 123-133, 161-171: the stripped lines with a keyword or a year
RECURSIVE keyword_or_year_items(_, _)
keyword_or_year_items(lines, keywords) ==
    IF lines = <<>> THEN <<>>
    ELSE LET line == strip(Head(lines)) IN
         (IF line # <<>> /\ (AnyIn(keywords, line) \/ has_year(line))
          THEN <<line>> ELSE <<>>)
         \o keyword_or_year_items(Tail(lines), keywords)

\* lines 109-140, 147-178: the body the two itemized extractors share
extract_itemized(section_text, keywords) ==
    LET n == normalize_text(Str(section_text)) IN
    IF n.raised THEN n
    ELSE LET lines == split_on(n.value, 10)
             items == keyword_or_year_items(lines, keywords)
         IN [raised |-> FALSE,
             value |-> join(<<44, 32>>,
                            IF items = <<>>
                            THEN first_n(non_blank(lines), max_fallback_lines)
                            ELSE items)]

\* processor_cvs.extract_education
extract_education(section_text) == extract_itemized(section_text, education_keywords)

\* processor_cvs.extract_experience
extract_experience(section_text) == extract_itemized(section_text, position_keywords)

\* lines 201-216: the skills taken line by line
RECURSIVE skill_items(_)
skill_items(lines) ==
    IF lines = <<>> THEN <<>>
    ELSE LET line == strip(Head(lines))
             skill == strip(lstrip_chars(line, {45, 32, 8226}))
         IN (IF line = <<>> THEN <<>>
             ELSE IF startswith(line, 45) \/ startswith(line, 8226)
                  THEN (IF skill # <<>> THEN <<skill>> ELSE <<>>)
             ELSE IF AnyIn(technical_skills, line) THEN <<line>>
             ELSE IF Len(split(line)) <= max_skill_words THEN <<line>>
             ELSE <<>>)
            \o skill_items(Tail(lines))

\* lines 219-222: the known skills found in the text, from the k-th on
RECURSIVE skills_in(_, _, _)
skills_in(skills, k, normalized) ==
    IF k > Len(skills) THEN <<>>
    ELSE (IF Contains(skills[k], normalized) THEN <<skills[k]>> ELSE <<>>)
         \o skills_in(skills, k + 1, normalized)

\* processor_cvs.extract_skills
extract_skills(section_text) ==
    LET n == normalize_text(Str(section_text)) IN
    IF n.raised THEN n
    ELSE LET skills == skill_items(split_on(n.value, 10)) IN
         [raised |-> FALSE,
          value |-> join(<<44, 32>>,
                         IF skills = <<>> THEN skills_in(technical_skills, 1, n.value)
                         ELSE skills)]

(***************************************************************************)
(* The regular expressions the JD extractors build from a word of a list:  *)
(*     [^.!?]*\bWORD\b[^.!?]*[.!?]     (extract_education, line 226)       *)
(*     [^.!?,]*\bWORD\b[^.!?,]*        (extract_skills, line 292)          *)
(* The word is pasted unescaped, so "." in it is any code point but the    *)
(* newline and "c++" is a possessive c+, which re compiles from Python     *)
(* 3.11 on and rejects (multiple repeat) before.                           *)
(***************************************************************************)
\* the atoms of the word read as a regular expression
RECURSIVE regex_atoms(_)
regex_atoms(word) ==
    IF word = <<>> THEN <<>>
    ELSE IF Len(word) >= 3 /\ word[2] = 43 /\ word[3] = 43
         THEN <<[kind |-> "plus", c |-> word[1]]>> \o regex_atoms(SubSeq(word, 4, Len(word)))
    ELSE IF word[1] = 46
         THEN <<[kind |-> "any", c |-> 46]>> \o regex_atoms(Tail(word))
    ELSE <<[kind |-> "lit", c |-> word[1]]>> \o regex_atoms(Tail(word))

\* re.compile raises re.error for the expression of this word
compile_raises(word, possessive) ==
    ~possessive /\ (\E i \in 1..Len(regex_atoms(word)) : regex_atoms(word)[i].kind = "plus")

\* the offset where the run of c starting at offset p of s ends
RECURSIVE run_of(_, _, _)
run_of(s, p, c) == IF p < Len(s) /\ s[p + 1] = c THEN run_of(s, p + 1, c) ELSE p

\* the offset where the atoms from the k-th on end when matched at offset p
\* of s, -1 when they do not match
RECURSIVE match_atoms(_, _, _, _)
match_atoms(atoms, k, s, p) ==
    IF k > Len(atoms) THEN p
    ELSE IF atoms[k].kind = "plus"
         THEN (IF run_of(s, p, atoms[k].c) > p
               THEN match_atoms(atoms, k + 1, s, run_of(s, p, atoms[k].c))
               ELSE 0 - 1)
    ELSE IF p >= Len(s) THEN 0 - 1
    ELSE IF atoms[k].kind = "any"
         THEN (IF s[p + 1] # 10 THEN match_atoms(atoms, k + 1, s, p + 1) ELSE 0 - 1)
    ELSE IF s[p + 1] = atoms[k].c THEN match_atoms(atoms, k + 1, s, p + 1)
    ELSE 0 - 1

\* the offset where the run of code points outside seps starting at p ends
RECURSIVE run_end(_, _, _)
run_end(s, p, seps) ==
    IF p < Len(s) /\ s[p + 1] \notin seps THEN run_end(s, p + 1, seps) ELSE p

\* the offsets p from pos on where \bWORD\b can follow the greedy prefix
\* and the rest of the expression can follow it
word_offsets(atoms, s, pos, seps, terminated) ==
    { p \in pos..run_end(s, pos, seps) :
        /\ boundary(s, p)
        /\ match_atoms(atoms, 1, s, p) >= 0
        /\ boundary(s, match_atoms(atoms, 1, s, p))
        /\ terminated => run_end(s, match_atoms(atoms, 1, s, p), seps) < Len(s) }

\* the end of the match of the expression at offset pos, -1 without one:
\* the greedy prefix gives back as little as it can
match_end(atoms, s, pos, seps, terminated) ==
    LET offsets == word_offsets(atoms, s, pos, seps, terminated) IN
    IF offsets = {} THEN 0 - 1
    ELSE LET p == CHOOSE q \in offsets : \A o \in offsets : o <= q
             e == run_end(s, match_atoms(atoms, 1, s, p), seps)
         IN IF terminated THEN e + 1 ELSE e

\* pattern.findall(s) from offset pos on
RECURSIVE findall(_, _, _, _, _)
findall(atoms, s, pos, seps, terminated) ==
    IF pos > Len(s) THEN <<>>
    ELSE LET e == match_end(atoms, s, pos, seps, terminated) IN
         IF e < 0 THEN findall(atoms, s, pos + 1, seps, terminated)
         ELSE <<Slice(s, pos, e)>> \o findall(atoms, s, e, seps, terminated)

(***************************************************************************)
(* The field extractors of processor_jds.                                  *)
(***************************************************************************)
\* education_keywords of processor_jds.extract_education
\* ingeniería, licenciatura, título, grado, carrera, universitario,
\* técnico, profesional, maestría, máster, doctorado, postgrado,
\* certificación, diplomado
jd_education_keywords ==
    << <<105, 110, 103, 101, 110, 105, 101, 114, 237, 97>>,
       <<108, 105, 99, 101, 110, 99, 105, 97, 116, 117, 114, 97>>,
       <<116, 237, 116, 117, 108, 111>>,
       <<103, 114, 97, 100, 111>>,
       <<99, 97, 114, 114, 101, 114, 97>>,
       <<117, 110, 105, 118, 101, 114, 115, 105, 116, 97, 114, 105, 111>>,
       <<116, 233, 99, 110, 105, 99, 111>>,
       <<112, 114, 111, 102, 101, 115, 105, 111, 110, 97, 108>>,
       <<109, 97, 101, 115, 116, 114, 237, 97>>,
       <<109, 225, 115, 116, 101, 114>>,
       <<100, 111, 99, 116, 111, 114, 97, 100, 111>>,
       <<112, 111, 115, 116, 103, 114, 97, 100, 111>>,
       <<99, 101, 114, 116, 105, 102, 105, 99, 97, 99, 105, 243, 110>>,
       <<100, 105, 112, 108, 111, 109, 97, 100, 111>> >>

\* the verbs of line 176
\* desarrollar, diseñar, implementar, crear, gestionar, administrar,
\* coordinar, mantener, analizar
responsibility_verbs ==
    << <<100, 101, 115, 97, 114, 114, 111, 108, 108, 97, 114>>,
       <<100, 105, 115, 101, 241, 97, 114>>,
       <<105, 109, 112, 108, 101, 109, 101, 110, 116, 97, 114>>,
       <<99, 114, 101, 97, 114>>,
       <<103, 101, 115, 116, 105, 111, 110, 97, 114>>,
       <<97, 100, 109, 105, 110, 105, 115, 116, 114, 97, 114>>,
       <<99, 111, 111, 114, 100, 105, 110, 97, 114>>,
       <<109, 97, 110, 116, 101, 110, 101, 114>>,
       <<97, 110, 97, 108, 105, 122, 97, 114>> >>

\* technical_skills of processor_jds.extract_skills
\* java, python, c++, javascript, html, css, sql, php, ruby, excel, word,
\* powerpoint, linux, windows, docker, aws, azure, office, sap, jira, git,
\* react, angular, vue, node.js, django, flask, spring, rest, api, mongodb,
\* mysql, postgresql, oracle, databricks, spark, powerbi, power bi,
\* tableau, data warehouse, etl, power automate, machine learning,
\* data lake, big data, hadoop, kubernetes, microservices, jenkins, devops,
\* agile, scrum
jd_technical_skills ==
    << <<106, 97, 118, 97>>,
       <<112, 121, 116, 104, 111, 110>>,
       <<99, 43, 43>>,
       <<106, 97, 118, 97, 115, 99, 114, 105, 112, 116>>,
       <<104, 116, 109, 108>>,
       <<99, 115, 115>>,
       <<115, 113, 108>>,
       <<112, 104, 112>>,
       <<114, 117, 98, 121>>,
       <<101, 120, 99, 101, 108>>,
       <<119, 111, 114, 100>>,
       <<112, 111, 119, 101, 114, 112, 111, 105, 110, 116>>,
       <<108, 105, 110, 117, 120>>,
       <<119, 105, 110, 100, 111, 119, 115>>,
       <<100, 111, 99, 107, 101, 114>>,
       <<97, 119, 115>>,
       <<97, 122, 117, 114, 101>>,
       <<111, 102, 102, 105, 99, 101>>,
       <<115, 97, 112>>,
       <<106, 105, 114, 97>>,
       <<103, 105, 116>>,
       <<114, 101, 97, 99, 116>>,
       <<97, 110, 103, 117, 108, 97, 114>>,
       <<118, 117, 101>>,
       <<110, 111, 100, 101, 46, 106, 115>>,
       <<100, 106, 97, 110, 103, 111>>,
       <<102, 108, 97, 115, 107>>,
       <<115, 112, 114, 105, 110, 103>>,
       <<114, 101, 115, 116>>,
       <<97, 112, 105>>,
       <<109, 111, 110, 103, 111, 100, 98>>,
       <<109, 121, 115, 113, 108>>,
       <<112, 111, 115, 116, 103, 114, 101, 115, 113, 108>>,
       <<111, 114, 97, 99, 108, 101>>,
       <<100, 97, 116, 97, 98, 114, 105, 99, 107, 115>>,
       <<115, 112, 97, 114, 107>>,
       <<112, 111, 119, 101, 114, 98, 105>>,
       <<112, 111, 119, 101, 114, 32, 98, 105>>,
       <<116, 97, 98, 108, 101, 97, 117>>,
       <<100, 97, 116, 97, 32, 119, 97, 114, 101, 104, 111, 117, 115, 101>>,
       <<101, 116, 108>>,
       <<112, 111, 119, 101, 114, 32, 97, 117, 116, 111, 109, 97, 116, 101>>,
       <<109, 97, 99, 104, 105, 110, 101, 32, 108, 101, 97, 114, 110, 105, 110, 103>>,
       <<100, 97, 116, 97, 32, 108, 97, 107, 101>>,
       <<98, 105, 103, 32, 100, 97, 116, 97>>,
       <<104, 97, 100, 111, 111, 112>>,
       <<107, 117, 98, 101, 114, 110, 101, 116, 101, 115>>,
       <<109, 105, 99, 114, 111, 115, 101, 114, 118, 105, 99, 101, 115>>,
       <<106, 101, 110, 107, 105, 110, 115>>,
       <<100, 101, 118, 111, 112, 115>>,
       <<97, 103, 105, 108, 101>>,
       <<115, 99, 114, 117, 109>> >>

\* lines 134-136, 158-160, 197-199, 253-255: the section without its
\* first line
drop_title(section_text) ==
    IF Len(split_on(section_text, 10)) > 1
    THEN strip(join(<<10>>, Tail(split_on(section_text, 10))))
    ELSE section_text

\* processor_jds.extract_description
extract_description(section_text) ==
    IF section_text = <<>> THEN [raised |-> FALSE, value |-> <<>>]
    ELSE LET n == jd_normalize_text(Str(drop_title(section_text))) IN
         IF n.raised THEN n
         ELSE [raised |-> FALSE, value |-> truncate_words(n.value)]

\* re.match(r'^(desarrollar|...)\b', line)
starts_with_verb(line) ==
    \E k \in 1..Len(responsibility_verbs) :
        /\ WordAt(responsibility_verbs[k], line, 0)
        /\ boundary(line, Len(responsibility_verbs[k]))

\* lines 167-179: items grown line by line
RECURSIVE responsibility_items(_, _)
responsibility_items(lines, items) ==
    IF lines = <<>> THEN items
    ELSE LET line == strip(Head(lines)) IN
         responsibility_items(Tail(lines),
            IF line = <<>> THEN items
            ELSE IF startswith(line, 45) \/ startswith(line, 8226) \/ startswith(line, 42)
                 THEN Append(items, strip(lstrip_chars(line, {45, 32, 8226, 42})))
            ELSE IF starts_with_verb(line) THEN Append(items, line)
            ELSE IF Len(items) = 0 THEN Append(items, line)
            ELSE items)

\* processor_jds.extract_responsibilities
extract_responsibilities(section_text) ==
    IF section_text = <<>> THEN [raised |-> FALSE, value |-> <<>>]
    ELSE LET n == jd_normalize_text(Str(drop_title(section_text))) IN
         IF n.raised THEN n
         ELSE LET items == responsibility_items(split_on(n.value, 10), <<>>) IN
              [raised |-> FALSE,
               value |-> IF items = <<>> THEN n.value ELSE join(<<44, 32>>, items)]

\* lines 213-220: the stripped lines with a keyword
RECURSIVE keyword_items(_, _)
keyword_items(lines, keywords) ==
    IF lines = <<>> THEN <<>>
    ELSE (IF strip(Head(lines)) # <<>> /\ AnyIn(keywords, strip(Head(lines)))
          THEN <<strip(Head(lines))>> ELSE <<>>)
         \o keyword_items(Tail(lines), keywords)

\* lines 225-228: the sentences that hold a keyword, from the k-th keyword on
RECURSIVE keyword_sentences(_, _, _)
keyword_sentences(keywords, k, normalized) ==
    IF k > Len(keywords) THEN <<>>
    ELSE findall(regex_atoms(keywords[k]), normalized, 0, {46, 33, 63}, TRUE)
         \o keyword_sentences(keywords, k + 1, normalized)

\* lines 232-235: the first line that names formación or experiencia
RECURSIVE first_formacion_line(_)
first_formacion_line(lines) ==
    IF lines = <<>> THEN <<>>
    ELSE IF \/ Contains(<<102, 111, 114, 109, 97, 99, 105, 243, 110>>, Head(lines))
            \/ Contains(<<101, 120, 112, 101, 114, 105, 101, 110, 99, 105, 97>>, Head(lines))
         THEN <<Head(lines)>>
    ELSE first_formacion_line(Tail(lines))

\* processor_jds.extract_education
jd_extract_education(section_text) ==
    IF section_text = <<>> THEN [raised |-> FALSE, value |-> <<>>]
    ELSE LET n == jd_normalize_text(Str(drop_title(section_text))) IN
         IF n.raised THEN n
         ELSE LET lines == split_on(n.value, 10)
                  by_line == keyword_items(lines, jd_education_keywords)
                  by_sentence == IF by_line = <<>>
                                 THEN keyword_sentences(jd_education_keywords, 1, n.value)
                                 ELSE by_line
                  items == IF by_sentence = <<>> /\ Contains(<<102, 111, 114, 109, 97, 99, 105, 243, 110>>, n.value)
                           THEN first_formacion_line(lines)
                           ELSE by_sentence
              IN [raised |-> FALSE,
                  value |-> IF items = <<>> THEN n.value ELSE join(<<44, 32>>, items)]

\* lines 276-285: the bulleted lines without their bullet
RECURSIVE bullet_items(_)
bullet_items(lines) ==
    IF lines = <<>> THEN <<>>
    ELSE LET line == strip(Head(lines))
             skill == strip(lstrip_chars(line, {45, 32, 8226, 42}))
         IN (IF /\ line # <<>>
                /\ (startswith(line, 45) \/ startswith(line, 8226) \/ startswith(line, 42))
                /\ skill # <<>>
             THEN <<skill>> ELSE <<>>)
            \o bullet_items(Tail(lines))

\* lines 289-297: the context of every known skill of the text, from the
\* k-th skill on; re.compile may raise
RECURSIVE skill_contexts(_, _, _, _)
skill_contexts(skills, k, normalized, possessive) ==
    IF k > Len(skills) THEN [raised |-> FALSE, value |-> <<>>]
    ELSE IF ~Contains(skills[k], normalized)
         THEN skill_contexts(skills, k + 1, normalized, possessive)
    ELSE IF compile_raises(skills[k], possessive)
         THEN [raised |-> TRUE, value |-> <<>>]
    ELSE LET matches == findall(regex_atoms(skills[k]), normalized, 0,
                                {46, 33, 63, 44}, FALSE)
             rest == skill_contexts(skills, k + 1, normalized, possessive)
         IN IF rest.raised THEN rest
            ELSE [raised |-> FALSE,
                  value |-> (IF matches # <<>> THEN matches ELSE <<skills[k]>>)
                            \o rest.value]

\* lines 301-304: the short lines
RECURSIVE short_lines(_)
short_lines(lines) ==
    IF lines = <<>> THEN <<>>
    ELSE (IF strip(Head(lines)) # <<>> /\ Len(split(strip(Head(lines)))) <= max_skill_words
          THEN <<strip(Head(lines))>> ELSE <<>>)
         \o short_lines(Tail(lines))

\* lines 311-314: the items without their repetitions
RECURSIVE unique(_, _)
unique(items, seen) ==
    IF items = <<>> THEN seen
    ELSE unique(Tail(items),
                IF \E i \in 1..Len(seen) : seen[i] = Head(items)
                THEN seen ELSE Append(seen, Head(items)))

\* processor_jds.extract_skills; possessive: re reads "c++" as a
\* possessive quantifier (Python 3.11 on) instead of rejecting it
jd_extract_skills(section_text, possessive) ==
    IF section_text = <<>> THEN [raised |-> FALSE, value |-> <<>>]
    ELSE LET n == jd_normalize_text(Str(drop_title(section_text))) IN
         IF n.raised THEN n
         ELSE LET lines == split_on(n.value, 10)
                  bullets == bullet_items(lines)
                  contexts == IF bullets = <<>>
                              THEN skill_contexts(jd_technical_skills, 1, n.value, possessive)
                              ELSE [raised |-> FALSE, value |-> bullets]
              IN IF contexts.raised THEN contexts
                 ELSE LET skills == IF contexts.value = <<>> THEN short_lines(lines)
                                    ELSE contexts.value
                      IN [raised |-> FALSE,
                          value |-> IF skills = <<>> THEN n.value
                                    ELSE join(<<44, 32>>, unique(skills, <<>>))]

(***************************************************************************)
(* Every field extractor and both identify_sections applied to section     *)
(* texts assembled from malformed fragments: bullets, punctuation, skills  *)
(* whose names are not plain words, long lines, a missing title line.      *)
(***************************************************************************)
ExtractParts == 2     \* fragments in one section text

\* "", "Requisitos\n", "- Java, C++\n", "• node.js *\n", "Ingeniero 2020.",
\* "uno dos tres cuatro cinco seis ", "desarrollar API!", "power bi, sql?", "İ_", "formación\n"
ExtractFragments ==
    { <<>>,
      <<82, 101, 113, 117, 105, 115, 105, 116, 111, 115, 10>>,
      <<45, 32, 74, 97, 118, 97, 44, 32, 67, 43, 43, 10>>,
      <<8226, 32, 110, 111, 100, 101, 46, 106, 115, 32, 42, 10>>,
      <<73, 110, 103, 101, 110, 105, 101, 114, 111, 32, 50, 48, 50, 48, 46>>,
      <<117, 110, 111, 32, 100, 111, 115, 32, 116, 114, 101, 115, 32, 99, 117, 97, 116, 114, 111, 32, 99, 105, 110, 99, 111, 32, 115, 101, 105, 115, 32>>,
      <<100, 101, 115, 97, 114, 114, 111, 108, 108, 97, 114, 32, 65, 80, 73, 33>>,
      <<112, 111, 119, 101, 114, 32, 98, 105, 44, 32, 115, 113, 108, 63>>,
      <<304, 95>>,
      <<102, 111, 114, 109, 97, 99, 105, 243, 110, 10>> }

Extractors ==
    { "extract_profile",
      "extract_education",
      "extract_experience",
      "extract_skills",
      "extract_description",
      "extract_responsibilities",
      "jd_extract_education",
      "jd_extract_skills",
      "identify_sections", "jd_identify_sections" }

InitExtract ==
    /\ InitModule
    /\ call \in { [op |-> "extract", fn |-> fn, parts |-> parts, text |-> Concat(parts),
                   possessive |-> possessive] :
                    fn \in Extractors, parts \in [1..ExtractParts -> ExtractFragments],
                    possessive \in BOOLEAN }
    /\ ret = NoCall

\* what an extractor call leaves in ret
Extracted(r) ==
    /\ ret = NoCall
    /\ ret' = [op |-> "extract", fn |-> call.fn, raised |-> r.raised, value |-> r.value]
    /\ UNCHANGED <<MODELS, cache, constructed, encoded, failures, failed, threads, call>>

ExtractProfile == call.fn = "extract_profile" /\ Extracted(extract_profile(call.text))

ExtractEducation == call.fn = "extract_education" /\ Extracted(extract_education(call.text))

ExtractExperience == call.fn = "extract_experience" /\ Extracted(extract_experience(call.text))

ExtractSkills == call.fn = "extract_skills" /\ Extracted(extract_skills(call.text))

ExtractDescription == call.fn = "extract_description" /\ Extracted(extract_description(call.text))

ExtractResponsibilities == call.fn = "extract_responsibilities" /\ Extracted(extract_responsibilities(call.text))

JdExtractEducation == call.fn = "jd_extract_education" /\ Extracted(jd_extract_education(call.text))

JdExtractSkills == call.fn = "jd_extract_skills" /\ Extracted(jd_extract_skills(call.text, call.possessive))

SegmentCV ==
    /\ call.fn = "identify_sections"
    /\ Extracted([raised |-> FALSE, value |-> identify_sections(call.text)])

SegmentJD ==
    /\ call.fn = "jd_identify_sections"
    /\ Extracted([raised |-> FALSE, value |-> jd_identify_sections(call.text)])

NextExtract ==
    \/ ExtractProfile \/ ExtractEducation \/ ExtractExperience \/ ExtractSkills
    \/ ExtractDescription \/ ExtractResponsibilities
    \/ JdExtractEducation \/ JdExtractSkills
    \/ SegmentCV \/ SegmentJD

SpecExtract == InitExtract /\ [][NextExtract]_vars

\* C17: on a string, identify_sections and every field extractor return a
\* value and raise nothing
C17_ExtractorsNeverRaise == ret.op = "extract" => ~ret.raised

\* the JD skills extractor, run by a Python that rejects "c++" as a regular
\* expression, took its skills from a text that names C++
C17_Witness ==
    /\ ret.op = "extract"
    /\ ret.fn = "jd_extract_skills"
    /\ ~call.possessive
    /\ Contains(<<67, 43, 43>>, drop_title(call.text))
    /\ ~ret.raised
    /\ Contains(<<106, 97, 118, 97>>, ret.value)

(***************************************************************************)
(* process_cv_simplified and process_jd, from the text read from the file  *)
(* on: text is what extract_text_from_pdf or read_jd_file returned (None   *)
(* or a str), saved tells whether writing the JSON file succeeds.          *)
(* They return [raised, value, sections, document]: value is the path of   *)
(* the JSON file or None, sections what identify_sections found, document  *)
(* the dict built for the JSON file (NoDocument if none was built).        *)
(***************************************************************************)
min_jd_length == 10       \* shortest text process_jd accepts

NoDocument == [built |-> FALSE]

OutputPath == [type |-> "str", value |-> <<111, 117, 116>>]

\* a lookup that answers a missing name with the first section
section_get_any(sections, name) ==
    IF \E i \in 1..Len(sections) : sections[i].name = name
    THEN (CHOOSE x \in { sections[i] : i \in 1..Len(sections) } : x.name = name).content
    ELSE IF sections # <<>> THEN sections[1].content
    ELSE <<>>

\* sections.get(name, '')
section_get(sections, name) ==
    IF \E i \in 1..Len(sections) : sections[i].name = name
    THEN (CHOOSE x \in { sections[i] : i \in 1..Len(sections) } : x.name = name).content
    ELSE <<>>

\* lines 247-267 (CV), 359-379 (JD): the dict of the four extracted fields
\* and the attempt to write it
build_and_save(fields, sections, saved) ==
    IF \E f \in DOMAIN fields : fields[f].raised
    THEN [raised |-> TRUE, value |-> None, sections |-> sections, document |-> NoDocument]
    ELSE [raised |-> FALSE,
          value |-> IF saved THEN OutputPath ELSE None,
          sections |-> sections,
          document |-> [built |-> TRUE, data |-> [f \in DOMAIN fields |-> fields[f].value]]]

\* processor_cvs.process_cv_simplified after line 239
process_cv_simplified(text, saved) ==
    IF ~truthy(text)
    THEN [raised |-> FALSE, value |-> None, sections |-> <<>>, document |-> NoDocument]
    ELSE LET sections == identify_sections(text.value) IN
         build_and_save(
            [perfil |-> extract_profile(section_get(sections, "perfil")),
             experiencia |-> extract_experience(section_get(sections, "experiencia")),
             formacion |-> extract_education(section_get(sections, "formacion")),
             habilidades |-> extract_skills(section_get(sections, "habilidades"))],
            sections, saved)

\* processor_jds.process_jd after line 331
process_jd(text, saved, possessive) ==
    IF ~truthy(text) \/ Len(text.value) < min_jd_length
    THEN [raised |-> FALSE, value |-> None, sections |-> <<>>, document |-> NoDocument]
    ELSE LET found == jd_identify_sections(text.value)
             sections == IF found = <<>>
                         THEN <<[name |-> "descripcion", content |-> text.value]>>
                         ELSE found
         IN build_and_save(
               [descripcion |-> extract_description(section_get(sections, "descripcion")),
                responsabilidades |->
                    extract_responsibilities(section_get(sections, "responsabilidades")),
                formacion |-> jd_extract_education(section_get(sections, "formacion")),
                habilidades |-> jd_extract_skills(section_get(sections, "habilidades"),
                                                  possessive)],
               found, saved)

ProcessParts == 2     \* fragments in one processed document

InitProcess ==
    /\ InitModule
    /\ call \in { [op |-> "process", side |-> side, text |-> x, saved |-> saved,
                   possessive |-> possessive] :
                    side \in Sides,
                    x \in {None, Str(<<>>)}
                          \cup { Str(Concat(parts)) : parts \in [1..ProcessParts -> Fragments] },
                    saved \in BOOLEAN, possessive \in BOOLEAN }
    /\ ret = NoCall

\* what a process call leaves in ret
Processed(r) ==
    /\ ret = NoCall
    /\ ret' = [op |-> "process", raised |-> r.raised, value |-> r.value,
               sections |-> r.sections, document |-> r.document]
    /\ UNCHANGED <<MODELS, cache, constructed, encoded, failures, failed, threads, call>>

ProcessCV == call.side = "cv" /\ Processed(process_cv_simplified(call.text, call.saved))

ProcessJD == call.side = "jd" /\ Processed(process_jd(call.text, call.saved, call.possessive))

NextProcess == ProcessCV \/ ProcessJD

SpecProcess == InitProcess /\ [][NextProcess]_vars

\* the four fields of the document of a side
fields_of(side) ==
    IF side = "cv" THEN {"perfil", "experiencia", "formacion", "habilidades"}
    ELSE {"descripcion", "responsabilidades", "formacion", "habilidades"}

\* identify_sections found a section of this name
Detected(sections, name) == \E i \in 1..Len(sections) : sections[i].name = name

\* C13: when no section start is detected and the raw text normalizes to a
\* non-empty string, the document built from the whole text has a
\* non-empty field
C13_FallbackFieldNotEmpty ==
    (/\ ret.op = "process"
     /\ ret.document.built
     /\ ret.sections = <<>>
     /\ normalized_str(call.text.value) # <<>>)
    => \E f \in DOMAIN ret.document.data : ret.document.data[f] # <<>>

\* C14 as stated: every document has exactly its four fields, each a
\* string, and the field of a section that was not detected is empty
C14_FieldsPresentAbsentEmpty ==
    (ret.op = "process" /\ ret.document.built)
    => /\ DOMAIN ret.document.data = fields_of(call.side)
       /\ \A f \in fields_of(call.side) :
            /\ ret.document.data[f] \in Seq(Nat)
            /\ ~Detected(ret.sections, f) => ret.document.data[f] = <<>>

\* C14 amended: every document has exactly its four fields, each a string,
\* and the field of a section that was not detected is empty, except the
\* descripcion of a job description in which no section at all was
\* detected, which is extracted from the whole text
C14_FieldsPresentAbsentEmptyButFallback ==
    (ret.op = "process" /\ ret.document.built)
    => /\ DOMAIN ret.document.data = fields_of(call.side)
       /\ \A f \in fields_of(call.side) :
            /\ ret.document.data[f] \in Seq(Nat)
            /\ (/\ ~Detected(ret.sections, f)
                /\ ~(call.side = "jd" /\ ret.sections = <<>> /\ f = "descripcion"))
               => ret.document.data[f] = <<>>

\* a document with a detected, non-empty field and an undetected field
C14_Witness ==
    /\ ret.op = "process"
    /\ ret.document.built
    /\ \E f \in fields_of(call.side) :
            Detected(ret.sections, f) /\ ret.document.data[f] # <<>>
    /\ \E f \in fields_of(call.side) :
            ~Detected(ret.sections, f) /\ ret.document.data[f] = <<>>

(***************************************************************************)
(* The eviction order of the lru_cache: get_embedding called with blank    *)
(* texts, with more fresh texts than the cache holds, and again with keys  *)
(* used before. call.recent lists the keys of the calls made so far, each  *)
(* once, least recently used first.                                        *)
(***************************************************************************)
\* ("", True) and (" ", False)
BlankKeys == { << <<>>, TRUE >>, << <<32>>, FALSE >> }

\* the keys called again near the capacity of the cache
AgainKeys == BlankKeys \cup { ProbeKey }

RECURSIVE Without(_, _)
Without(keys, key) ==
    IF keys = <<>> THEN <<>>
    ELSE (IF Head(keys) = key THEN <<>> ELSE <<Head(keys)>>) \o Without(Tail(keys), key)

\* the key moves to the most recently used end
Touch(keys, key) == Append(Without(keys, key), key)

InitEvict ==
    /\ InitModule
    /\ call = [op |-> "evict", next |-> 0, recent |-> <<>>]
    /\ ret = NoCall

\* one call get_embedding(key[1], key[2])
CallKey(key, fresh) ==
    LET r == get_embedding(State, key[1], key[2], DefaultBackend, 0) IN
    /\ Commit(r)
    /\ ret' = [op |-> "get_embedding", text |-> key[1], is_short |-> key[2],
               raised |-> r.raised, value |-> r.value]
    /\ call' = [call EXCEPT !.next = @ + fresh, !.recent = Touch(@, key)]

\* get_embedding of a blank text before any other text
CallBlankFirst ==
    /\ call.next = 0
    /\ \E key \in BlankKeys : CallKey(key, 0)

\* get_embedding of the next text never embedded before
CallNext ==
    /\ call.next < maxsize + ExtraTexts
    /\ CallKey(<<FreshText(call.next), call.next % 2 = 0>>, 1)

\* get_embedding of a key used before, when the cache is about full
CallUsed ==
    /\ call.next >= maxsize - 2
    /\ \E key \in AgainKeys : CallKey(key, 0)

NextEvict == CallBlankFirst \/ CallNext \/ CallUsed

SpecEvict == InitEvict /\ [][NextEvict]_vars

\* the last n items
last_n(items, n) ==
    IF Len(items) <= n THEN items ELSE SubSeq(items, Len(items) - n + 1, Len(items))

\* C21: the cache never holds more than 100 entries; its keys are the last
\* 100 distinct keys called, the least recently used of them being the
\* first to go; a call with one of these keys invokes no backend; the zero
\* vector of a blank text is an entry like any other
C21_CacheHoldsLast100Keys ==
    [][call'.op = "evict"
       => /\ Len(cache') <= 100
          /\ [i \in 1..Len(cache') |-> cache'[i].key] = last_n(call'.recent, 100)
          /\ (\E i \in 1..Len(last_n(call.recent, 100)) :
                last_n(call.recent, 100)[i] = <<ret'.text, ret'.is_short>>)
             => (encoded' = encoded /\ constructed' = constructed /\ ~ret'.raised)
          /\ \A i \in 1..Len(cache') :
                Blank(cache'[i].key[1])
                => cache'[i].value = zeros(embedding_dim(cache'[i].key[2]))]_vars

\* the cache is full, keys were evicted, a blank key called again was a
\* hit and sits at the most recently used end, and another blank key was
\* evicted
C21_Witness ==
    /\ call.op = "evict"
    /\ Len(cache) = 100
    /\ Len(call.recent) > 100
    /\ ret.text = <<>>
    /\ cache[100].key = << <<>>, TRUE >>
    /\ cache[100].value = zeros(384)
    /\ \A i \in 1..100 : cache[i].key # << <<32>>, FALSE >>
    /\ \E i \in 1..Len(call.recent) : call.recent[i] = << <<32>>, FALSE >>

\* the names of the sections in the order the patterns are declared (CV
\* lines 33-38, JD lines 66-71)
declared(side) ==
    IF side = "cv" THEN <<"perfil", "formacion", "experiencia", "habilidades">>
    ELSE <<"descripcion", "responsabilidades", "formacion", "habilidades">>

declared_at(side, name) == CHOOSE k \in 1..4 : declared(side)[k] = name

\* C22: two sections found at the same offset are both kept, next to each
\* other and in the order their patterns are declared; the first has an
\* empty span and an empty content, the second runs to the start of the
\* next section, or to the end of the document when it is the last one
C22_SameOffsetBothKept ==
    ret.op = "identify_sections"
    => \A i, j \in 1..Len(ret.spans) :
         (i < j /\ ret.spans[i].start = ret.spans[j].start)
         => /\ j = i + 1
            /\ declared_at(call.side, ret.spans[i].name)
                 < declared_at(call.side, ret.spans[j].name)
            /\ ret.value[i].name = ret.spans[i].name
            /\ ret.value[j].name = ret.spans[j].name
            /\ ret.spans[i].stop = ret.spans[i].start
            /\ ret.spans[i].raw = <<>>
            /\ ret.value[i].content = <<>>
            /\ ret.spans[j].stop = (IF j = Len(ret.spans) THEN Len(call.text)
                                    ELSE ret.spans[j + 1].start)
            /\ ret.spans[j].raw = Slice(call.text, ret.spans[j].start, ret.spans[j].stop)

\* a job description where "Certificaciones" starts formacion and
\* habilidades at one offset, after another section and before a third
C22_Witness ==
    /\ ret.op = "identify_sections"
    /\ call.side = "jd"
    /\ Len(ret.spans) = 4
    /\ ret.spans[2].name = "formacion"
    /\ ret.spans[3].name = "habilidades"
    /\ ret.spans[2].start = ret.spans[3].start
    /\ ret.spans[1].start < ret.spans[2].start
    /\ ret.spans[3].raw # <<>>
    /\ ret.spans[3].stop = ret.spans[4].start

\* the text the skills extractor normalizes: the CV one the whole span, the
\* JD one the span without its first line
skills_normalized(fn, section_text) ==
    IF fn = "extract_skills" THEN normalized_str(section_text)
    ELSE normalized_str(drop_title(section_text))

ExtraWords == 2     \* words beyond max_words, and short of it

\* "a".."z" by turns; the same in upper case followed by "!"; the same
\* preceded by "é_"
WordStyles == {"plain", "upper", "accent"}

word_of(style, i) ==
    IF style = "plain" THEN <<97 + (i % 26)>>
    ELSE IF style = "upper" THEN <<65 + (i % 26), 33>>
    ELSE <<233, 95, 97 + (i % 26)>>

\* " ", "\n", " \t "
Separators == { <<32>>, <<10>>, <<32, 9, 32>> }

\* the words i..n, each followed by sep
RECURSIVE words_text(_, _, _, _)
words_text(style, sep, i, n) ==
    IF i > n THEN <<>>
    ELSE IF i = n THEN word_of(style, i) \o sep
    ELSE words_text(style, sep, i, (i + n) \div 2)
         \o words_text(style, sep, (i + n) \div 2 + 1, n)

WordCounts == (0..ExtraWords) \cup ((max_words - ExtraWords)..(max_words + ExtraWords))

InitTruncate ==
    /\ InitModule
    /\ \E fn \in {"extract_profile", "extract_description"}, style \in WordStyles,
          sep \in Separators, n \in WordCounts :
         call = [op |-> "truncate", fn |-> fn, words |-> n,
                 text |-> words_text(style, sep, 1, n)]
    /\ ret = NoCall

Truncated(r) ==
    /\ ret = NoCall
    /\ ret' = [op |-> "truncate", fn |-> call.fn, raised |-> r.raised, value |-> r.value]
    /\ UNCHANGED <<MODELS, cache, constructed, encoded, failures, failed, threads, call>>

ProfileOf == call.fn = "extract_profile" /\ Truncated(extract_profile(call.text))

DescriptionOf == call.fn = "extract_description" /\ Truncated(extract_description(call.text))

NextTruncate == ProfileOf \/ DescriptionOf

SpecTruncate == InitTruncate /\ [][NextTruncate]_vars

\* the text a free-text extractor normalizes: the CV one the whole span,
\* the JD one the span without its first line
free_text_normalized(fn, section_text) ==
    IF fn = "extract_profile" THEN normalized_str(section_text)
    ELSE normalized_str(drop_title(section_text))

\* C24: extract_profile and extract_description return the normalized text
\* as it is when it has at most 200 words, otherwise its first 200 words
\* joined by single spaces, and never more than 200 words
C24_AtMost200Words ==
    ret.op = "truncate"
    => LET normalized == free_text_normalized(ret.fn, call.text)
           tokens == split(normalized)
       IN /\ ~ret.raised
          /\ Len(tokens) <= 200 => ret.value = normalized
          /\ Len(tokens) > 200 => ret.value = join(<<32>>, SubSeq(tokens, 1, 200))
          /\ Len(split(ret.value)) <= 200

\* a profile of more than 200 words cut to 200, the last one the 200th of
\* the text
C24_Witness ==
    /\ ret.op = "truncate"
    /\ ret.fn = "extract_profile"
    /\ call.words = 202
    /\ Len(split(ret.value)) = 200
    /\ ret.value[Len(ret.value)] = 97 + (200 % 26)
    /\ ret.value # normalized_str(call.text)

span_of(spans, name) ==
    IF \E i \in 1..Len(spans) : spans[i].name = name
    THEN CHOOSE i \in 1..Len(spans) : spans[i].name = name
    ELSE 0

\* "EXPERIENCIA laboral\n"
ExperienciaFragment ==
    <<69, 88, 80, 69, 82, 73, 69, 78, 67, 73, 65, 32, 108, 97, 98, 111, 114, 97, 108, 10>>

\* the fragments with a keyword that only the perfil pattern of the CV has:
\* "Perfil\n", "datos \n personales "
PerfilOnly ==
    { <<80, 101, 114, 102, 105, 108, 10>>,
      <<100, 97, 116, 111, 115, 32, 10, 32, 112, 101, 114, 115, 111, 110, 97, 108, 101, 115, 32>> }

\* no fragment of PerfilOnly comes before the first "EXPERIENCIA laboral\n"
ExperienciaFirst(parts) ==
    \E k \in 1..Len(parts) :
        /\ parts[k] = ExperienciaFragment
        /\ \A h \in 1..(k - 1) : parts[h] \notin PerfilOnly

\* C27: in a CV, a detected experiencia section comes with a perfil section
\* that starts no later and stands before it; when no keyword of perfil
\* alone precedes the first "experiencia", both start at one offset and the
\* perfil section is empty
C27_PerfilPrecedesExperiencia ==
    (ret.op = "identify_sections" /\ call.side = "cv")
    => LET p == span_of(ret.spans, "perfil")
           e == span_of(ret.spans, "experiencia")
       IN /\ e > 0
             => /\ p > 0
                /\ p < e
                /\ ret.spans[p].start <= ret.spans[e].start
          /\ ExperienciaFirst(call.parts)
             => /\ e = p + 1
                /\ ret.spans[p].start = ret.spans[e].start
                /\ ret.spans[p].raw = <<>>
                /\ ret.value[p].name = "perfil"
                /\ ret.value[p].content = <<>>

\* a CV whose "Perfil" header comes after "EXPERIENCIA laboral": the perfil
\* section starts with experiencia and is empty
C27_Witness ==
    /\ ret.op = "identify_sections"
    /\ call.side = "cv"
    /\ call.parts[1] \notin PerfilOnly
    /\ call.parts[2] = ExperienciaFragment
    /\ call.parts[3] = <<80, 101, 114, 102, 105, 108, 10>>
    /\ ret.value[1] = [name |-> "perfil", content |-> <<>>]
    /\ ret.value[2].name = "experiencia"
    /\ ret.spans[1].start = ret.spans[2].start
    /\ ret.spans[1].start > 0

(***************************************************************************)
(* similarity.compare_cv_to_jds.  A JSON file is [readable, data]: open or *)
(* json.load raise on a file that is not readable, data is what json.load  *)
(* returns, a dict or something else.  A JD path has, besides, writable    *)
(* (whether the result file of the pair can be written) and fault (whether *)
(* the backend breaks at its next operation during the comparison).        *)
(* compare_cv_to_jds returns [st, raised, value, log, files]: log tells    *)
(* for each JD path how far its processing went, files are the result      *)
(* files written.                                                          *)
(***************************************************************************)
MaxJDs == 3     \* JD paths of one call

Unreadable == [readable |-> FALSE]

Dict(d) == [type |-> "dict", value |-> d]

\* a JSON document that is a list
NotADict == [type |-> "list"]

\* lines 107-108: cv_data.get and jd_data.get exist on a dict only
compare_sections_of(st, cv_data, jd_data, be, failAt) ==
    IF cv_data.type # "dict" \/ jd_data.type # "dict"
    THEN [st |-> st, raised |-> TRUE, value |-> NoComparison]
    ELSE compare_sections(st, cv_data.value, jd_data.value, be, failAt)

\* an insertion after the results of a higher or equal total_score
RECURSIVE InsertResult(_, _)
InsertResult(sorted, x) ==
    IF sorted = <<>> THEN <<x>>
    ELSE IF x.total_score > Head(sorted).total_score THEN <<x>> \o sorted
    ELSE <<Head(sorted)>> \o InsertResult(Tail(sorted), x)

\* the results left in the order of the JD paths
sort_results_unsorted(results) == results

\* line 186: results.sort(key=lambda x: x["total_score"], reverse=True)
RECURSIVE sort_results(_)
sort_results(results) ==
    IF results = <<>> THEN <<>>
    ELSE InsertResult(sort_results(SubSeq(results, 1, Len(results) - 1)),
                      results[Len(results)])

\* lines 161-180: what the k-th JD path leaves once it was loaded and
\* compare_sections gave c
record_jd(acc, k, cv, jd, c) ==
    IF c.raised
    THEN [acc EXCEPT !.st = c.st, !.log = Append(@, "comparison failed")]
    ELSE IF ~jd.writable
    THEN [acc EXCEPT !.st = c.st, !.log = Append(@, "write failed")]
    ELSE [acc EXCEPT !.st = c.st,
                     !.log = Append(@, "done"),
                     !.files = @ \cup { <<cv.name, k>> },
                     !.results = Append(@, [cv_name |-> cv.name,
                                            jd_name |-> k,
                                            scores |-> c.value.section_scores,
                                            total_score |-> c.value.total_score])]

\* lines 155-183: the body of the loop for the k-th JD path
compare_jd(acc, k, cv, jd, be) ==
    IF ~jd.readable
    THEN [acc EXCEPT !.log = Append(@, "load failed")]
    ELSE record_jd(acc, k, cv, jd,
                   compare_sections_of(acc.st, cv.data, jd.data, be,
                                       IF jd.fault THEN acc.st.ops + 1 ELSE 0))

\* lines 154-183: the loop from the k-th JD path on
RECURSIVE compare_jds(_, _, _, _, _)
compare_jds(acc, k, cv, jd_paths, be) ==
    IF k > Len(jd_paths) THEN acc
    ELSE compare_jds(compare_jd(acc, k, cv, jd_paths[k], be), k + 1, cv, jd_paths, be)

\* lines 185-187: the sorted list returned
sorted_results(acc) ==
    [st |-> acc.st, raised |-> FALSE, value |-> sort_results(acc.results),
     log |-> acc.log, files |-> acc.files]

compare_cv_to_jds(st, cv, jd_paths, dir_ok, be) ==
    IF ~dir_ok
    THEN [st |-> st, raised |-> TRUE, value |-> <<>>, log |-> <<>>, files |-> {}]
    ELSE IF ~cv.readable
    THEN [st |-> st, raised |-> FALSE, value |-> <<>>, log |-> <<>>, files |-> {}]
    ELSE sorted_results(compare_jds([st |-> st, results |-> <<>>, log |-> <<>>,
                                     files |-> {}],
                                    1, cv, jd_paths, be))

(***************************************************************************)
(* compare_cv_to_jds called once, the module freshly imported, with a CV   *)
(* file and up to MaxJDs JD paths.                                         *)
(***************************************************************************)
\* "py", "sql"
BatchCV ==
    Dict([perfil |-> <<112, 121>>, experiencia |-> <<112, 121>>,
          formacion |-> <<112, 121>>, habilidades |-> <<112, 121>>])

BatchJDs ==
    { Dict([descripcion |-> <<112, 121>>, responsabilidades |-> <<112, 121>>,
            formacion |-> <<112, 121>>, habilidades |-> <<112, 121>>]),
      Dict([descripcion |-> <<115, 113, 108>>, responsabilidades |-> <<>>,
            formacion |-> <<112, 121>>, habilidades |-> <<>>]) }

CVFiles ==
    { [name |-> "cv", readable |-> FALSE],
      [name |-> "cv", readable |-> TRUE, data |-> NotADict],
      [name |-> "cv", readable |-> TRUE, data |-> BatchCV] }

JDFiles ==
    { Unreadable }
    \cup { [readable |-> TRUE, data |-> d, writable |-> w, fault |-> f] :
             d \in BatchJDs, w \in BOOLEAN, f \in BOOLEAN }

InitBatch ==
    /\ InitModule
    /\ \E n \in 0..MaxJDs :
         call \in { [op |-> "compare_cv_to_jds", cv |-> cv, jd_paths |-> jds,
                     dir_ok |-> ok] :
                      cv \in CVFiles, jds \in [1..n -> JDFiles], ok \in BOOLEAN }
    /\ ret = NoCall

CompareCvToJds ==
    /\ ret = NoCall
    /\ \E r \in { compare_cv_to_jds(State, call.cv, call.jd_paths, call.dir_ok,
                                     DefaultBackend) } :
       /\ Commit(r)
       /\ ret' = [op |-> "compare_cv_to_jds", raised |-> r.raised, value |-> r.value,
                  log |-> r.log, files |-> r.files]
    /\ UNCHANGED call

NextBatch == CompareCvToJds

SpecBatch == InitBatch /\ [][NextBatch]_vars

\* the JD paths whose load, comparison and write all succeeded
Done == { k \in 1..Len(ret.log) : ret.log[k] = "done" }

\* what a call that got past the creation of the output directory leaves:
\* with a CV that loads, every JD path was processed, the load failed on
\* the files that are not readable and only on them, a result file was
\* written for the paths of Done and for no other, the list has one result
\* for each path of Done and none besides, in non-increasing order of
\* total_score; with a CV that does not load, the list is empty and nothing
\* was loaded, embedded or written
BatchOutcome ==
    IF call.cv.readable
    THEN /\ Len(ret.log) = Len(call.jd_paths)
         /\ \A k \in 1..Len(ret.log) :
              /\ ret.log[k] = "load failed" <=> ~call.jd_paths[k].readable
              /\ ret.log[k] = "done" => call.jd_paths[k].writable
              /\ ret.log[k] = "write failed" => ~call.jd_paths[k].writable
         /\ ret.files = { <<call.cv.name, k>> : k \in Done }
         /\ Len(ret.value) = Cardinality(Done)
         /\ \A k \in Done : \E i \in 1..Len(ret.value) : ret.value[i].jd_name = k
         /\ \A i \in 1..Len(ret.value) : ret.value[i].jd_name \in Done
         /\ \A i \in 1..(Len(ret.value) - 1) :
              ret.value[i].total_score >= ret.value[i + 1].total_score
    ELSE /\ ret.value = <<>>
         /\ ret.log = <<>>
         /\ ret.files = {}
         /\ encoded = <<>>
         /\ cache = <<>>

\* C25 as stated: compare_cv_to_jds returns one result for each JD path
\* whose load, comparison and write succeeded, in non-increasing order of
\* total_score, a JD that fails being skipped, and the empty list without
\* processing any JD when the CV does not load
C25_OneResultPerJD ==
    ret.op = "compare_cv_to_jds" => (~ret.raised /\ BatchOutcome)

\* C25: the same once os.makedirs(output_dir) has succeeded; when it
\* raises, the call raises before the CV or any JD is loaded
C25_OneResultPerJDInDirectory ==
    ret.op = "compare_cv_to_jds"
    => IF call.dir_ok THEN ~ret.raised /\ BatchOutcome
       ELSE /\ ret.raised
            /\ ret.log = <<>>
            /\ ret.files = {}
            /\ encoded = <<>>

\* three JD paths: the result of the first could not be written, the third
\* scores higher than the second and comes first in the list
C25_Witness ==
    /\ ret.op = "compare_cv_to_jds"
    /\ call.dir_ok
    /\ ret.log = <<"write failed", "done", "done">>
    /\ Len(ret.value) = 2
    /\ ret.value[1].jd_name = 3
    /\ ret.value[2].jd_name = 2
    /\ ret.value[1].total_score > ret.value[2].total_score

====
